---------------------------- MODULE Spec2Model ----------------------------
(***************************************************************************)
(* A3S Context: the addressable node store (MemoryStorage), its Similarity *)
(* Index (VectorIndex), the Pathway addressing scheme and the Retriever.   *)
(*                                                                         *)
(* Text is a sequence of one-character strings, so Pathway::to_string and  *)
(* Pathway::parse are the conversions the source performs.  Scores are     *)
(* cosine similarities in hundredths; the vectors of the model have        *)
(* integer norms, for which the fixed-point value is exact.                *)
(***************************************************************************)
EXTENDS Integers, Sequences, FiniteSets, TLC

VARIABLES nodes, vectors, live, ret, steps, files, pc

vars == <<nodes, vectors, live, ret, steps, files, pc>>

(***************************************************************************)
(* Bounds of the model.                                                    *)
(***************************************************************************)
\* number of mutating storage operations in one behaviour
MaxOps == 2
\* largest limit a search is called with
MaxLimit == 2
\* number of add and remove calls on a VectorIndex in one behaviour
MaxIndexOps == 3
\* number of files ingested in one behaviour
MaxFiles == 4
\* largest number of documents handed to a reranker
MaxDocs == 3

(***************************************************************************)
(* Generic helpers.                                                        *)
(***************************************************************************)
Range(s) == {s[i] : i \in 1..Len(s)}

Min(a, b) == IF a <= b THEN a ELSE b

Take(s, n) == SubSeq(s, 1, Min(n, Len(s)))

\* the permutations of a finite set, as sequences
Orderings(S) == {s \in [1..Cardinality(S) -> S] : \A i, j \in 1..Cardinality(S) : s[i] = s[j] => i = j}

RECURSIVE JoinWith(_, _)
JoinWith(parts, sep) ==
    IF parts = <<>> THEN <<>>
    ELSE IF Len(parts) = 1 THEN parts[1]
    ELSE parts[1] \o sep \o JoinWith(Tail(parts), sep)

\* str::split(sep): the pieces between separators, empty pieces included
RECURSIVE SplitOn(_, _, _)
SplitOn(s, sep, cur) ==
    IF s = <<>> THEN <<cur>>
    ELSE IF Head(s) = sep THEN <<cur>> \o SplitOn(Tail(s), sep, <<>>)
    ELSE SplitOn(Tail(s), sep, Append(cur, Head(s)))

StartsWith(s, pre) == Len(s) >= Len(pre) /\ SubSeq(s, 1, Len(pre)) = pre

DropFirst(s, n) == SubSeq(s, n + 1, Len(s))

RECURSIVE TrimStart(_)
TrimStart(s) == IF s # <<>> /\ Head(s) = " " THEN TrimStart(Tail(s)) ELSE s

RECURSIVE TrimEnd(_)
TrimEnd(s) == IF s # <<>> /\ s[Len(s)] = " " THEN TrimEnd(SubSeq(s, 1, Len(s) - 1)) ELSE s

Trim(s) == TrimEnd(TrimStart(s))

\* byte value of a character, for the ordering of strings
CharCode(c) ==
    CASE c = "NUL" -> 0
      [] c = " " -> 32
      [] c = "." -> 46
      [] c = "/" -> 47
      [] c = "2" -> 50
      [] c = "3" -> 51
      [] c = ":" -> 58
      [] OTHER -> 96 + CHOOSE i \in 1..26 :
                    <<"a","b","c","d","e","f","g","h","i","j","k","l","m",
                      "n","o","p","q","r","s","t","u","v","w","x","y","z">>[i] = c

\* Ord for str: lexicographic by bytes; -1, 0, 1
RECURSIVE StrCmp(_, _)
StrCmp(a, b) ==
    IF a = <<>> /\ b = <<>> THEN 0
    ELSE IF a = <<>> THEN -1
    ELSE IF b = <<>> THEN 1
    ELSE IF CharCode(Head(a)) < CharCode(Head(b)) THEN -1
    ELSE IF CharCode(Head(a)) > CharCode(Head(b)) THEN 1
    ELSE StrCmp(Tail(a), Tail(b))

(***************************************************************************)
(* core.rs: Namespace.                                                     *)
(***************************************************************************)
Namespace == {"Knowledge", "Memory", "Capability", "Session"}

\* Option<Namespace>::None
None == "None"

\* Option<T> for record values
Some(v) == [some |-> TRUE, val |-> v]

NoneV == [some |-> FALSE]

as_str(ns) ==
    CASE ns = "Knowledge" -> <<"k","n","o","w","l","e","d","g","e">>
      [] ns = "Memory" -> <<"m","e","m","o","r","y">>
      [] ns = "Capability" -> <<"c","a","p","a","b","i","l","i","t","y">>
      [] ns = "Session" -> <<"s","e","s","s","i","o","n">>

NamespaceParse(s) ==
    IF \E ns \in Namespace : as_str(ns) = s
    THEN CHOOSE ns \in Namespace : as_str(ns) = s
    ELSE None

\* derive(PartialOrd, Ord) on the enum: declaration order
NsRank(ns) ==
    CASE ns = "Knowledge" -> 0
      [] ns = "Memory" -> 1
      [] ns = "Capability" -> 2
      [] ns = "Session" -> 3

(***************************************************************************)
(* pathway.rs: Pathway.                                                    *)
(***************************************************************************)
PROTOCOL == <<"a","3","s",":","/","/">>

Pathway(ns, segs) == [namespace |-> ns, segments |-> segs]

root(ns) == Pathway(ns, <<>>)

to_relative(p) ==
    IF p.segments = <<>> THEN as_str(p.namespace)
    ELSE as_str(p.namespace) \o <<"/">> \o JoinWith(p.segments, <<"/">>)

to_string(p) == PROTOCOL \o to_relative(p)

Err(e) == [ok |-> FALSE, err |-> e]

Ok(v) == [ok |-> TRUE, val |-> v]

parse(text) ==
    LET s == Trim(text)
        path_str == IF StartsWith(s, PROTOCOL) THEN DropFirst(s, Len(PROTOCOL))
                    ELSE IF StartsWith(s, <<"/">>) THEN DropFirst(s, 1)
                    ELSE s
        parts == SelectSeq(SplitOn(path_str, "/", <<>>), LAMBDA x : x # <<>>)
    IN  IF path_str = <<>> THEN Err("InvalidPathway")
        ELSE IF parts = <<>> THEN Err("InvalidPathway")
        ELSE IF NamespaceParse(parts[1]) = None THEN Err("InvalidPathway")
        ELSE IF \E i \in 2..Len(parts) : parts[i] = <<>> \/ "NUL" \in Range(parts[i])
             THEN Err("InvalidPathway")
        ELSE Ok(Pathway(NamespaceParse(parts[1]), Tail(parts)))

parent(p) ==
    IF p.segments = <<>> THEN NoneV
    ELSE Some(Pathway(p.namespace, SubSeq(p.segments, 1, Len(p.segments) - 1)))

join(p, segment) == Pathway(p.namespace, Append(p.segments, segment))

\* is_prefix_of without the comparison of lengths: the zip stops at the
\* shorter of the two
is_prefix_of_Zip(p, other) ==
    /\ p.namespace = other.namespace
    /\ \A i \in 1..Min(Len(p.segments), Len(other.segments)) :
          p.segments[i] = other.segments[i]

is_prefix_of(p, other) ==
    /\ p.namespace = other.namespace
    /\ Len(p.segments) <= Len(other.segments)
    /\ \A i \in 1..Len(p.segments) : p.segments[i] = other.segments[i]

depth(p) == Len(p.segments)

\* derive(Ord) on Vec<String>: lexicographic
RECURSIVE SegsCmp(_, _)
SegsCmp(a, b) ==
    IF a = <<>> /\ b = <<>> THEN 0
    ELSE IF a = <<>> THEN -1
    ELSE IF b = <<>> THEN 1
    ELSE IF StrCmp(Head(a), Head(b)) # 0 THEN StrCmp(Head(a), Head(b))
    ELSE SegsCmp(Tail(a), Tail(b))

\* derive(PartialOrd, Ord) on Pathway: namespace first, then segments
PathwayCmp(p, q) ==
    IF NsRank(p.namespace) < NsRank(q.namespace) THEN -1
    ELSE IF NsRank(p.namespace) > NsRank(q.namespace) THEN 1
    ELSE SegsCmp(p.segments, q.segments)


(***************************************************************************)
(* digest.rs, core.rs: Digest and Node.                                    *)
(***************************************************************************)
DigestDefault == [brief |-> <<>>, summary |-> <<>>, generated |-> FALSE]

with_content(brief, summary) == [brief |-> brief, summary |-> summary, generated |-> TRUE]

\* Node::new: a fresh leaf, empty digest and embedding
NodeNew(pathway, content) ==
    [pathway |-> pathway, is_directory |-> FALSE, digest |-> DigestDefault,
     content |-> content, embedding |-> <<>>]

\* Node::directory: a container marker without content
NodeDirectory(pathway) ==
    [pathway |-> pathway, is_directory |-> TRUE, digest |-> DigestDefault,
     content |-> <<>>, embedding |-> <<>>]

size(node) == Len(node.content)

\* Node::update_content
update_content(node, content) == [node EXCEPT !.content = content, !.digest = DigestDefault]

(***************************************************************************)
(* storage/vector_index.rs: cosine similarity and the VectorIndex.         *)
(***************************************************************************)
RECURSIVE Dot(_, _)
Dot(a, b) == IF a = <<>> THEN 0 ELSE Head(a) * Head(b) + Dot(Tail(a), Tail(b))

\* f32::sqrt on the sums of squares the model's vectors have
Sqrt(n) == CHOOSE r \in 0..n : r * r <= n /\ (r + 1) * (r + 1) > n

\* the score in hundredths
cosine_similarity(a, b) ==
    IF Len(a) # Len(b) \/ a = <<>> THEN 0
    ELSE LET dot == Dot(a, b)
             norm_a == Sqrt(Dot(a, a))
             norm_b == Sqrt(Dot(b, b))
         IN  IF norm_a = 0 \/ norm_b = 0 THEN 0
             ELSE (dot * 100) \div (norm_a * norm_b)

\* DashMap::insert
MapInsert(m, k, v) == [x \in DOMAIN m \cup {k} |-> IF x = k THEN v ELSE m[x]]

\* DashMap::remove
MapRemove(m, k) == [x \in DOMAIN m \ {k} |-> m[x]]

EmptyMap == [x \in {} |-> x]

IndexAdd(vs, pathway, vector) == MapInsert(vs, to_string(pathway), vector)

IndexRemove(vs, pathway) == MapRemove(vs, to_string(pathway))

\* a heap ordered by the score alone
HeapLe_ScoreOnly(e, f) == e.score <= f.score

\* Ord on (OrderedFloat<f32>, Pathway): the order of the max-heap
HeapLe(e, f) ==
    \/ e.score < f.score
    \/ e.score = f.score /\ PathwayCmp(e.pathway, f.pathway) <= 0

\* BinaryHeap::pop, at most n times
RECURSIVE PopMax(_, _)
PopMax(heap, n) ==
    IF n = 0 \/ heap = {} THEN <<>>
    ELSE LET top == CHOOSE e \in heap : \A f \in heap : HeapLe(f, e)
         IN  <<[pathway |-> top.pathway, score |-> top.score]>> \o PopMax(heap \ {top}, n - 1)

\* VectorIndex::search keeping only the scores above the threshold
IndexSearch_Above(vs, query, namespace, limit, threshold) ==
    IF \E k \in DOMAIN vs : ~parse(k).ok THEN Err("InvalidPathway")
    ELSE LET heap == {[score |-> cosine_similarity(query, vs[k]),
                       pathway |-> parse(k).val, key |-> k] :
                        k \in {x \in DOMAIN vs :
                                 /\ namespace # None => parse(x).val.namespace = namespace
                                 /\ cosine_similarity(query, vs[x]) > threshold}}
         IN  Ok(PopMax(heap, limit))

\* VectorIndex::search without the namespace filter
IndexSearch_AnyNamespace(vs, query, namespace, limit, threshold) ==
    IF \E k \in DOMAIN vs : ~parse(k).ok THEN Err("InvalidPathway")
    ELSE LET heap == {[score |-> cosine_similarity(query, vs[k]),
                       pathway |-> parse(k).val, key |-> k] :
                        k \in {x \in DOMAIN vs :
                                 cosine_similarity(query, vs[x]) >= threshold}}
         IN  Ok(PopMax(heap, limit))

IndexSearch(vs, query, namespace, limit, threshold) ==
    IF \E k \in DOMAIN vs : ~parse(k).ok THEN Err("InvalidPathway")
    ELSE LET heap == {[score |-> cosine_similarity(query, vs[k]),
                       pathway |-> parse(k).val, key |-> k] :
                        k \in {x \in DOMAIN vs :
                                 /\ namespace # None => parse(x).val.namespace = namespace
                                 /\ cosine_similarity(query, vs[x]) >= threshold}}
         IN  Ok(PopMax(heap, limit))

\* BinaryHeap::push, the heap kept as the sequence its pops would give:
\* the new element goes before the first one it is greater than
RECURSIVE HeapPush(_, _)
HeapPush(heap, e) ==
    IF heap = <<>> THEN <<e>>
    ELSE IF ~HeapLe(e, Head(heap)) THEN <<e>> \o heap
    ELSE <<Head(heap)>> \o HeapPush(Tail(heap), e)

\* the loop of VectorIndex::search over the entries in the order the
\* DashMap yields them
RECURSIVE SearchLoop(_, _, _, _, _, _)
SearchLoop(vs, order, query, namespace, threshold, heap) ==
    IF order = <<>> THEN Ok(heap)
    ELSE IF ~parse(Head(order)).ok THEN Err("InvalidPathway")
    ELSE IF namespace # None /\ parse(Head(order)).val.namespace # namespace
         THEN SearchLoop(vs, Tail(order), query, namespace, threshold, heap)
    ELSE IF cosine_similarity(query, vs[Head(order)]) >= threshold
         THEN SearchLoop(vs, Tail(order), query, namespace, threshold,
                         HeapPush(heap, [score |-> cosine_similarity(query, vs[Head(order)]),
                                         pathway |-> parse(Head(order)).val]))
    ELSE SearchLoop(vs, Tail(order), query, namespace, threshold, heap)

\* VectorIndex::search with the iteration order of the DashMap given
IndexSearchIn(vs, order, query, namespace, limit, threshold) ==
    LET heap == SearchLoop(vs, order, query, namespace, threshold, <<>>)
    IN  IF ~heap.ok THEN heap
        ELSE Ok([i \in 1..Min(limit, Len(heap.val)) |->
                    [pathway |-> heap.val[i].pathway, score |-> heap.val[i].score]])

size_of_index(vs) == Cardinality(DOMAIN vs)

(***************************************************************************)
(* storage/memory.rs: MemoryStorage over the node map and the index.       *)
(***************************************************************************)
\* the state MemoryStorage::put leaves: <<nodes, vectors>>
put(ns, vs, node) ==
    <<MapInsert(ns, to_string(node.pathway), node),
      IF node.embedding # <<>> THEN IndexAdd(vs, node.pathway, node.embedding) ELSE vs>>

get(ns, pathway) ==
    IF to_string(pathway) \in DOMAIN ns THEN Ok(ns[to_string(pathway)])
    ELSE Err("NodeNotFound")

exists(ns, pathway) == to_string(pathway) \in DOMAIN ns

\* remove with the subtree taken by the text of the pathways
remove_ByText(ns, vs, pathway, recursive) ==
    <<IF recursive
      THEN [k \in {x \in DOMAIN ns :
                     ~StartsWith(to_string(ns[x].pathway), to_string(pathway))} |-> ns[k]]
      ELSE MapRemove(ns, to_string(pathway)),
      IndexRemove(vs, pathway)>>

\* the state MemoryStorage::remove leaves: <<nodes, vectors>>
remove(ns, vs, pathway, recursive) ==
    <<IF recursive
      THEN [k \in {x \in DOMAIN ns : ~is_prefix_of(pathway, ns[x].pathway)} |-> ns[k]]
      ELSE MapRemove(ns, to_string(pathway)),
      IndexRemove(vs, pathway)>>

search_vector(vs, vector, namespace, limit, threshold) ==
    IndexSearch(vs, vector, namespace, limit, threshold)

RECURSIVE SumSize(_, _)
SumSize(ns, keys) ==
    IF keys = {} THEN 0
    ELSE LET k == CHOOSE x \in keys : TRUE
         IN  size(ns[k]) + SumSize(ns, keys \ {k})

stats(ns) ==
    [total_nodes |-> Cardinality(DOMAIN ns),
     total_directories |-> Cardinality({k \in DOMAIN ns : ns[k].is_directory}),
     total_size_bytes |-> SumSize(ns, DOMAIN ns)]

\* get_children with the node at the pathway itself let through
get_children_FromSelf(ns, pathway, max_depth) ==
    {ns[k] : k \in {x \in DOMAIN ns :
                      /\ is_prefix_of(pathway, ns[x].pathway)
                      /\ depth(ns[x].pathway) - depth(pathway) >= 0
                      /\ depth(ns[x].pathway) - depth(pathway) <= max_depth}}

\* the nodes get_children collects (the DashMap's iteration order is not part of it)
get_children(ns, pathway, max_depth) ==
    {ns[k] : k \in {x \in DOMAIN ns :
                      /\ is_prefix_of(pathway, ns[x].pathway)
                      /\ depth(ns[x].pathway) - depth(pathway) > 0
                      /\ depth(ns[x].pathway) - depth(pathway) <= max_depth}}

\* update_embedding that stores a fresh node carrying the embedding
update_embedding_FreshNode(ns, vs, pathway, embedding) ==
    IF to_string(pathway) \in DOMAIN ns
    THEN <<[ns EXCEPT ![to_string(pathway)] =
                 [NodeNew(pathway, <<>>) EXCEPT !.embedding = embedding]],
           IndexAdd(vs, pathway, embedding)>>
    ELSE <<ns, vs>>

\* the state MemoryStorage::update_embedding leaves: <<nodes, vectors>>
update_embedding(ns, vs, pathway, embedding) ==
    IF to_string(pathway) \in DOMAIN ns
    THEN <<[ns EXCEPT ![to_string(pathway)].embedding = embedding],
           IndexAdd(vs, pathway, embedding)>>
    ELSE <<ns, vs>>

update_digest(ns, pathway, digest) ==
    IF to_string(pathway) \in DOMAIN ns
    THEN [ns EXCEPT ![to_string(pathway)].digest = digest]
    ELSE ns

\* usize subtraction: the difference, or an overflow when it would be negative
usize_sub(a, b) == IF a >= b THEN Ok(a - b) ELSE Err("overflow")

\* the subtractions p.depth() - pathway.depth() that get_children evaluates:
\* one for each entry that passes the is_prefix_of test
depth_differences(ns, pathway) ==
    {usize_sub(depth(ns[k].pathway), depth(pathway)) :
        k \in {x \in DOMAIN ns : is_prefix_of(pathway, ns[x].pathway)}}

\* the outcomes of get_children, one Vec for each order of iteration; an
\* overflowing subtraction panics in a build with overflow checks and
\* wraps to a depth beyond any max_depth in one without
\* MemoryStorage::get_children as the Vec it returns, the node map iterated
\* in the order of keys
get_children_seq(ns, pathway, max_depth, keys) ==
    LET kept == SelectSeq(keys, LAMBDA k : ns[k] \in get_children(ns, pathway, max_depth))
    IN  [i \in 1..Len(kept) |-> ns[kept[i]]]

get_children_outcomes(ns, pathway, max_depth) ==
    {Ok(get_children_seq(ns, pathway, max_depth, keys)) : keys \in Orderings(DOMAIN ns)}
    \cup (IF \E d \in depth_differences(ns, pathway) : ~d.ok THEN {Err("panic")} ELSE {})

\* list: the fields of NodeInfo the model keeps
NodeInfo(node) ==
    [pathway |-> node.pathway, is_directory |-> node.is_directory, size |-> size(node)]

\* list with every node below the pathway taken for a child
list_keys_Prefix(ns, pathway) == {k \in DOMAIN ns : is_prefix_of(pathway, ns[k].pathway)}

\* the entries whose node passes the test of list
list_keys(ns, pathway) == {k \in DOMAIN ns : parent(ns[k].pathway) = Some(pathway)}

\* the outcomes of list: the entries are visited in the DashMap's order,
\* which is one of the orderings of the keys
list(ns, pathway) ==
    {[i \in 1..Len(order) |-> NodeInfo(ns[order[i]])] : order \in Orderings(list_keys(ns, pathway))}


(***************************************************************************)
(* The inputs the operations are called with.                              *)
(***************************************************************************)
SegDocs == <<"d">>

SegDocs2 == <<"d", "2">>

SegApi == <<"a">>

PDocs == Pathway("Knowledge", <<SegDocs>>)

PApi == Pathway("Knowledge", <<SegDocs, SegApi>>)

PDocs2 == Pathway("Knowledge", <<SegDocs2>>)

PMem == Pathway("Memory", <<SegDocs>>)

\* what Processor::process builds for the file d/a below the target
\* a3s://knowledge: target.join(rel_path) with rel_path = "d/a"
PIngested == join(root("Knowledge"), SegDocs \o <<"/">> \o SegApi)

Paths == {PDocs, PApi, PDocs2, PMem, PIngested}

VecX == <<1, 0>>

VecXY == <<3, 4>>

VecY == <<0, 1>>

VecZero == <<0, 0>>

Embeddings == {<<>>, VecX, VecXY}

DigestGenerated == with_content(<<"b">>, <<"s">>)

Digests == {DigestDefault, DigestGenerated}

\* leaves as Processor::process_file stores them (embedded or not), and
\* directory markers
NodeInputs ==
    {[NodeNew(p, <<"x">>) EXCEPT !.embedding = e] : p \in Paths, e \in Embeddings}
    \cup {NodeDirectory(p) : p \in Paths}

Queries == {VecX, VecXY, VecY}

Thresholds == {0, 60, 100}

NamespaceFilters == {None, "Knowledge", "Memory"}

(***************************************************************************)
(* History kept for the properties: per pathway, the node last put there   *)
(* or how the pathway came to hold none.                                   *)
(***************************************************************************)
Absent(by) == [absent |-> TRUE, by |-> by]

IsNode(x) == "pathway" \in DOMAIN x

LivePut(lv, node) == [lv EXCEPT ![node.pathway] = node]

LiveRemove(lv, pathway, recursive) ==
    [q \in DOMAIN lv |->
        IF recursive /\ is_prefix_of(pathway, q) THEN Absent("remove_recursive")
        ELSE IF ~recursive /\ q = pathway THEN Absent("remove")
        ELSE lv[q]]

LiveUpdateEmbedding(lv, pathway, embedding) ==
    IF IsNode(lv[pathway]) THEN [lv EXCEPT ![pathway].embedding = embedding] ELSE lv

LiveUpdateDigest(lv, pathway, digest) ==
    IF IsNode(lv[pathway]) THEN [lv EXCEPT ![pathway].digest = digest] ELSE lv

LiveUpdateContent(lv, pathway, node) ==
    IF pathway \in DOMAIN lv THEN [lv EXCEPT ![pathway] = node] ELSE lv

(***************************************************************************)
(* The operations of MemoryStorage as steps.  ret holds the last call and  *)
(* what it returned.  A behaviour is a client session: up to MaxOps        *)
(* mutating calls, closed by one observing call; whatever could follow an  *)
(* observation also follows the state it observed.                         *)
(***************************************************************************)
Observations == {"get", "exists", "search_vector", "stats", "index_search", "search",
                 "list", "get_children", "rerank"}

Running == ret.op \notin Observations

Init ==
    /\ nodes = EmptyMap
    /\ vectors = EmptyMap
    /\ live = [q \in Paths |-> Absent("init")]
    /\ ret = [op |-> "init"]
    /\ steps = 0
    /\ files = EmptyMap
    /\ pc = EmptyMap

Put(node) ==
    /\ Running
    /\ steps < MaxOps
    /\ LET after == put(nodes, vectors, node)
       IN  nodes' = after[1] /\ vectors' = after[2]
    /\ live' = LivePut(live, node)
    /\ ret' = [op |-> "put", node |-> node, val |-> Ok(<<>>)]
    /\ steps' = steps + 1
    /\ UNCHANGED <<files, pc>>

Remove(pathway, recursive) ==
    /\ Running
    /\ steps < MaxOps
    /\ LET after == remove(nodes, vectors, pathway, recursive)
       IN  nodes' = after[1] /\ vectors' = after[2]
    /\ live' = LiveRemove(live, pathway, recursive)
    /\ ret' = [op |-> "remove", pathway |-> pathway, recursive |-> recursive,
               val |-> Ok(<<>>)]
    /\ steps' = steps + 1
    /\ UNCHANGED <<files, pc>>

UpdateEmbedding(pathway, embedding) ==
    /\ Running
    /\ steps < MaxOps
    /\ LET after == update_embedding(nodes, vectors, pathway, embedding)
       IN  nodes' = after[1] /\ vectors' = after[2]
    /\ live' = LiveUpdateEmbedding(live, pathway, embedding)
    /\ ret' = [op |-> "update_embedding", pathway |-> pathway,
               embedding |-> embedding, val |-> Ok(<<>>)]
    /\ steps' = steps + 1
    /\ UNCHANGED <<files, pc>>

UpdateDigest(pathway, digest) ==
    /\ Running
    /\ steps < MaxOps
    /\ nodes' = update_digest(nodes, pathway, digest)
    /\ live' = LiveUpdateDigest(live, pathway, digest)
    /\ ret' = [op |-> "update_digest", pathway |-> pathway, digest |-> digest,
               val |-> Ok(<<>>)]
    /\ steps' = steps + 1
    /\ UNCHANGED <<vectors, files, pc>>

Get(pathway) ==
    /\ Running
    /\ ret' = [op |-> "get", pathway |-> pathway, val |-> get(nodes, pathway)]
    /\ UNCHANGED <<nodes, vectors, live, steps, files, pc>>

Exists(pathway) ==
    /\ Running
    /\ ret' = [op |-> "exists", pathway |-> pathway, val |-> Ok(exists(nodes, pathway))]
    /\ UNCHANGED <<nodes, vectors, live, steps, files, pc>>

SearchVector(vector, namespace, limit, threshold) ==
    /\ Running
    /\ ret' = [op |-> "search_vector", vector |-> vector, namespace |-> namespace,
               limit |-> limit, threshold |-> threshold,
               val |-> search_vector(vectors, vector, namespace, limit, threshold)]
    /\ UNCHANGED <<nodes, vectors, live, steps, files, pc>>

Stats ==
    /\ Running
    /\ ret' = [op |-> "stats", val |-> Ok(stats(nodes))]
    /\ UNCHANGED <<nodes, vectors, live, steps, files, pc>>

\* a client edits a stored node: get, Node::update_content, put (the update
\* branch of Processor::process_file without its digest and embedding steps)
UpdateContent(pathway, content) ==
    /\ Running
    /\ steps < MaxOps
    /\ IF ~get(nodes, pathway).ok
       THEN /\ ret' = [op |-> "update_content", pathway |-> pathway, content |-> content,
                       val |-> get(nodes, pathway)]
            /\ UNCHANGED <<nodes, vectors, live>>
       ELSE LET node == update_content(get(nodes, pathway).val, content)
                after == put(nodes, vectors, node)
            IN  /\ nodes' = after[1] /\ vectors' = after[2]
                /\ live' = LiveUpdateContent(live, node.pathway, node)
                /\ ret' = [op |-> "update_content", pathway |-> pathway,
                           content |-> content, val |-> Ok(<<>>)]
    /\ steps' = steps + 1
    /\ UNCHANGED <<files, pc>>

\* the pathways list and get_children are called on
ListTargets == {root("Knowledge"), root("Memory"), PDocs, PApi}

\* the depths get_children is called with
MaxDepths == {0, 1, 2}

List(pathway) ==
    /\ Running
    /\ \E result \in list(nodes, pathway) :
          ret' = [op |-> "list", pathway |-> pathway, val |-> Ok(result)]
    /\ UNCHANGED <<nodes, vectors, live, steps, files, pc>>

GetChildren(pathway, max_depth) ==
    /\ Running
    /\ \E result \in get_children_outcomes(nodes, pathway, max_depth) :
          ret' = [op |-> "get_children", pathway |-> pathway, max_depth |-> max_depth,
                  val |-> result]
    /\ UNCHANGED <<nodes, vectors, live, steps, files, pc>>

Next ==
    \/ \E node \in NodeInputs : Put(node)
    \/ \E pathway \in Paths, recursive \in BOOLEAN : Remove(pathway, recursive)
    \/ \E pathway \in Paths, embedding \in Embeddings \ {<<>>} :
            UpdateEmbedding(pathway, embedding)
    \/ \E pathway \in Paths, digest \in Digests : UpdateDigest(pathway, digest)
    \/ \E pathway \in Paths : UpdateContent(pathway, <<"y">>)
    \/ \E pathway \in Paths : Get(pathway)
    \/ \E pathway \in Paths : Exists(pathway)
    \/ \E vector \in {VecX}, namespace \in {None, "Knowledge"},
          limit \in {MaxLimit}, threshold \in {60} :
            SearchVector(vector, namespace, limit, threshold)
    \/ Stats
    \/ \E pathway \in ListTargets : List(pathway)
    \/ \E pathway \in ListTargets, max_depth \in MaxDepths : GetChildren(pathway, max_depth)

Spec == Init /\ [][Next]_vars


(***************************************************************************)
(* Properties of MemoryStorage, checked under Spec.                        *)
(***************************************************************************)
\* the pathways a search result names
ResultPathways(result) == {result.val[i].pathway : i \in 1..Len(result.val)}

\* every search_vector call of the model's inputs, on the index vs
AllSearches(vs) ==
    {search_vector(vs, q, f, l, t) :
        q \in Queries, f \in NamespaceFilters, l \in 0..MaxLimit, t \in Thresholds}

IsEmbeddedNode(x) == IsNode(x) /\ x.embedding # <<>>

\* C1: a recursive remove at a proper prefix p of an embedded node's pathway c
\* leaves exists(c) false and no vector for c in the index, so that no
\* search_vector returns c.
C1_RecursiveRemovePurgesIndex ==
    [][\A p \in Paths, c \in Paths :
        (/\ Remove(p, TRUE)
         /\ is_prefix_of(p, c) /\ p # c
         /\ IsEmbeddedNode(live[c]))
        => (/\ ~exists(nodes', c)
            /\ to_string(c) \notin DOMAIN vectors'
            /\ \A r \in AllSearches(vectors') : r.ok => c \notin ResultPathways(r))]_vars

\* C2: every entry of the index belongs to a stored node whose embedding is
\* non-empty and equal to the indexed vector.
C2_NoStaleIndexEntries ==
    \A k \in DOMAIN vectors :
        /\ k \in DOMAIN nodes
        /\ nodes[k].embedding # <<>>
        /\ nodes[k].embedding = vectors[k]

\* C3: every stored node with a non-empty embedding has an index entry under
\* its pathway, equal to its current embedding.
C3_IndexComplete ==
    \A k \in DOMAIN nodes :
        nodes[k].embedding # <<>> =>
            /\ to_string(nodes[k].pathway) \in DOMAIN vectors
            /\ vectors[to_string(nodes[k].pathway)] = nodes[k].embedding

\* C4: until the next mutation of its pathway, the node last put at p is what
\* get(p) returns and, when embedded, a search for its own embedding finds p;
\* after remove(p, false), exists(p) is false and no search returns p.
C4_ReadAfterWrite ==
    \A p \in Paths :
        /\ IsNode(live[p]) =>
            /\ get(nodes, p) = Ok(live[p])
            /\ live[p].embedding # <<>> =>
                \A t \in Thresholds :
                    LET r == search_vector(vectors, live[p].embedding, None,
                                           Cardinality(DOMAIN vectors), t)
                    IN  r.ok /\ p \in ResultPathways(r)
        /\ live[p] = Absent("remove") =>
            /\ ~exists(nodes, p)
            /\ \A r \in AllSearches(vectors) : r.ok => p \notin ResultPathways(r)

\* C5: the store is the map from pathway to the node last put there: get and
\* exists answer from it, and total_nodes counts the live pathways.
C5_StoreIsMap ==
    /\ \A p \in Paths :
        /\ get(nodes, p) = IF IsNode(live[p]) THEN Ok(live[p]) ELSE Err("NodeNotFound")
        /\ exists(nodes, p) = IsNode(live[p])
    /\ stats(nodes).total_nodes = Cardinality({p \in Paths : IsNode(live[p])})

\* the stored nodes, whatever their keys
Stored(ns) == {ns[k] : k \in DOMAIN ns}

\* p's segments are the first segments of q, in the same namespace
SegmentPrefix(p, q) ==
    /\ p.namespace = q.namespace
    /\ Len(p.segments) <= Len(q.segments)
    /\ SubSeq(q.segments, 1, Len(p.segments)) = p.segments

IndexPaths == {PDocs, PApi, PDocs2, PMem, PIngested}

IndexVectors == {VecX, VecXY, VecZero}

IdxAdd(pathway, vector) ==
    /\ Running
    /\ steps < MaxIndexOps
    /\ vectors' = IndexAdd(vectors, pathway, vector)
    /\ ret' = [op |-> "index_add", val |-> Ok(<<>>)]
    /\ steps' = steps + 1
    /\ UNCHANGED <<nodes, live, files, pc>>

IdxRemove(pathway) ==
    /\ Running
    /\ steps < MaxIndexOps
    /\ vectors' = IndexRemove(vectors, pathway)
    /\ ret' = [op |-> "index_remove", val |-> Ok(<<>>)]
    /\ steps' = steps + 1
    /\ UNCHANGED <<nodes, live, files, pc>>

IdxSearch(query, namespace, limit, threshold) ==
    /\ Running
    /\ ret' = [op |-> "index_search", query |-> query, namespace |-> namespace,
               limit |-> limit, threshold |-> threshold,
               val |-> IndexSearch(vectors, query, namespace, limit, threshold)]
    /\ UNCHANGED <<nodes, vectors, live, steps, files, pc>>

\* a search on an index whose DashMap yields its entries in some order
IdxSearchIn(query, namespace, limit, threshold) ==
    /\ Running
    /\ \E order \in Orderings(DOMAIN vectors) :
          ret' = [op |-> "index_search", query |-> query, namespace |-> namespace,
                  limit |-> limit, threshold |-> threshold, iterated |-> TRUE,
                  val |-> IndexSearchIn(vectors, order, query, namespace, limit, threshold)]
    /\ UNCHANGED <<nodes, vectors, live, steps, files, pc>>

NextIndex ==
    \/ \E pathway \in IndexPaths, vector \in IndexVectors : IdxAdd(pathway, vector)
    \/ \E pathway \in IndexPaths : IdxRemove(pathway)
    \/ \E namespace \in {None, "Knowledge"}, limit \in 1..MaxLimit, threshold \in {0, 60} :
            IdxSearchIn(VecX, namespace, limit, threshold)
    \/ \E query \in Queries, namespace \in NamespaceFilters,
          limit \in 0..MaxLimit, threshold \in Thresholds :
            IdxSearch(query, namespace, limit, threshold)

SpecIndex == Init /\ [][NextIndex]_vars

(***************************************************************************)
(* Properties of VectorIndex::search, checked under SpecIndex.             *)
(***************************************************************************)
\* the keys of the entries a search may return: in the filter's namespace and
\* scoring at least the threshold
Qualifying(vs, query, namespace, threshold) ==
    {k \in DOMAIN vs :
        /\ namespace # None => parse(k).val.namespace = namespace
        /\ cosine_similarity(query, vs[k]) >= threshold}

\* the keys of the entries a result list names
ReturnedKeys(r) == {to_string(r[i].pathway) : i \in 1..Len(r)}

\* C7: a search returns at most limit results, each an entry of the index with
\* its score, each scoring at least the threshold (equality included), in
\* non-increasing order of score, and they are the limit highest-scoring of
\* the entries meeting the threshold.
C7_SearchBounds ==
    (ret.op = "index_search" /\ ret.val.ok) =>
        LET r == ret.val.val
            q == Qualifying(vectors, ret.query, ret.namespace, ret.threshold)
        IN  /\ Len(r) <= ret.limit
            /\ \A i \in 1..Len(r) : r[i].score >= ret.threshold
            /\ \A i, j \in 1..Len(r) : i < j => r[i].score >= r[j].score
            /\ Len(r) = Min(ret.limit, Cardinality(q))
            /\ \A i, j \in 1..Len(r) : i # j => r[i].pathway # r[j].pathway
            /\ \A i \in 1..Len(r) :
                /\ to_string(r[i].pathway) \in q
                /\ r[i].score = cosine_similarity(ret.query, vectors[to_string(r[i].pathway)])
            /\ \A k \in q \ ReturnedKeys(r) : \A i \in 1..Len(r) :
                cosine_similarity(ret.query, vectors[k]) <= r[i].score

\* C7 witness: a search whose limit cut off a qualifying entry and whose last
\* result scores exactly the threshold, below the first.
C7_Witness ==
    /\ ret.op = "index_search" /\ ret.val.ok
    /\ ret.limit > 0
    /\ Len(ret.val.val) = ret.limit
    /\ Cardinality(Qualifying(vectors, ret.query, ret.namespace, ret.threshold)) > ret.limit
    /\ ret.val.val[Len(ret.val.val)].score = ret.threshold
    /\ ret.val.val[1].score > ret.threshold

\* C8: with a namespace filter every returned pathway is of that namespace,
\* whatever the other namespaces' entries score; with no filter an entry of
\* any namespace that meets the threshold is returned unless limit results
\* scoring at least as much are.
C8_NamespaceFilter ==
    (ret.op = "index_search" /\ ret.val.ok) =>
        LET r == ret.val.val
        IN  /\ ret.namespace # None =>
                \A i \in 1..Len(r) :
                    /\ r[i].pathway.namespace = ret.namespace
                    /\ \E p \in IndexPaths :
                        p.namespace = ret.namespace /\ to_string(p) = to_string(r[i].pathway)
            /\ ret.namespace = None =>
                \A k \in DOMAIN vectors :
                    cosine_similarity(ret.query, vectors[k]) >= ret.threshold =>
                        \/ k \in ReturnedKeys(r)
                        \/ /\ Len(r) = ret.limit
                           /\ \A i \in 1..Len(r) :
                                r[i].score >= cosine_similarity(ret.query, vectors[k])

\* C8 witness: a search filtered to Knowledge returned a Knowledge entry and
\* had room left, while a Memory entry of the index scores higher.
C8_Witness ==
    /\ ret.op = "index_search" /\ ret.val.ok
    /\ ret.namespace = "Knowledge"
    /\ Len(ret.val.val) >= 1
    /\ Len(ret.val.val) < ret.limit
    /\ \E k \in DOMAIN vectors :
        /\ parse(k).val.namespace = "Memory"
        /\ cosine_similarity(ret.query, vectors[k]) > ret.val.val[1].score


(***************************************************************************)
(* retrieval.rs: the Retriever over a MemoryStorage.  The order in which   *)
(* a HashSet and a DashMap hand out their elements is not fixed by the     *)
(* source: the operations below return the set of outcomes over all of     *)
(* them.                                                                   *)
(***************************************************************************)
\* RetrievalConfig defaults
default_limit == 10

\* 0.5, in hundredths
default_threshold == 50

default_max_depth == 3

MatchedNode(pathway, score, node) ==
    [pathway |-> pathway, score |-> score,
     brief |-> node.digest.brief, summary |-> Some(node.digest.summary)]

RECURSIVE FlatCollect(_, _, _)
FlatCollect(ns, candidates, results) ==
    IF candidates = <<>> THEN Ok(results)
    ELSE LET node == get(ns, Head(candidates).pathway)
         IN  IF ~node.ok THEN node
             ELSE FlatCollect(ns, Tail(candidates),
                    Append(results, MatchedNode(Head(candidates).pathway,
                                                Head(candidates).score, node.val)))

flat_search(ns, candidates, limit) == FlatCollect(ns, Take(candidates, limit), <<>>)

\* first pass of hierarchical_search: the leaves among the candidates and
\* the directories to explore
RECURSIVE FirstPass(_, _, _, _, _)
FirstPass(ns, candidates, threshold, results, explored_dirs) ==
    IF candidates = <<>> THEN Ok([results |-> results, explored_dirs |-> explored_dirs])
    ELSE LET pathway == Head(candidates).pathway
             score == Head(candidates).score
         IN  IF score < threshold
             THEN FirstPass(ns, Tail(candidates), threshold, results, explored_dirs)
             ELSE LET node == get(ns, pathway)
                  IN  IF ~node.ok THEN node
                      ELSE IF node.val.is_directory
                      THEN FirstPass(ns, Tail(candidates), threshold, results,
                                     explored_dirs \cup {pathway})
                      ELSE FirstPass(ns, Tail(candidates), threshold,
                                     Append(results, MatchedNode(pathway, score, node.val)),
                                     explored_dirs \cup
                                        (IF parent(pathway).some
                                         THEN {parent(pathway).val} ELSE {}))

\* the inner loop of the second pass, over the children of one directory
RECURSIVE ExploreChildren(_, _, _, _)
ExploreChildren(children, query_vector, threshold, results) ==
    IF children = <<>> THEN results
    ELSE LET child == Head(children)
             score == cosine_similarity(query_vector, child.embedding)
             exists_in == \E i \in 1..Len(results) : results[i].pathway = child.pathway
         IN  IF child.is_directory \/ child.embedding = <<>>
             THEN ExploreChildren(Tail(children), query_vector, threshold, results)
             ELSE IF score >= threshold /\ ~exists_in
             THEN ExploreChildren(Tail(children), query_vector, threshold,
                                  Append(results, MatchedNode(child.pathway, score, child)))
             ELSE ExploreChildren(Tail(children), query_vector, threshold, results)

\* second pass of hierarchical_search, over the directories in the order dirs
RECURSIVE SecondPass(_, _, _, _, _, _)
SecondPass(ns, dirs, query_vector, threshold, results, keys) ==
    IF dirs = <<>> THEN results
    ELSE SecondPass(ns, Tail(dirs), query_vector, threshold,
                    ExploreChildren(get_children_seq(ns, Head(dirs), 2, keys),
                                    query_vector, threshold, results),
                    keys)

\* the outcomes of Retriever::hierarchical_search
hierarchical_search(ns, query_vector, initial_candidates, threshold, max_depth) ==
    LET first == FirstPass(ns, initial_candidates, threshold, <<>>, {})
    IN  IF ~first.ok THEN {first}
        ELSE {Ok(SecondPass(ns, Take(dirs, max_depth), query_vector, threshold,
                            first.val.results, keys)) :
                dirs \in Orderings(first.val.explored_dirs),
                keys \in Orderings(DOMAIN ns)}

\* Vec::sort_by(|a, b| b.score.partial_cmp(&a.score)): stable, descending
RECURSIVE InsertByScore(_, _)
InsertByScore(sorted, m) ==
    IF sorted = <<>> THEN <<m>>
    ELSE IF Head(sorted).score >= m.score THEN <<Head(sorted)>> \o InsertByScore(Tail(sorted), m)
    ELSE <<m>> \o sorted

RECURSIVE sort_by_score(_)
sort_by_score(results) ==
    IF results = <<>> THEN <<>>
    ELSE InsertByScore(sort_by_score(SubSeq(results, 1, Len(results) - 1)),
                       results[Len(results)])

\* the limit and the threshold a search runs with
LimitOf(options) == IF options.limit.some THEN options.limit.val ELSE default_limit

ThresholdOf(options) ==
    IF options.threshold.some THEN options.threshold.val ELSE default_threshold

\* Retriever::search returning the combined results as they are
search_Untruncated(ns, vs, embedded, options, hierarchical) ==
    IF ~embedded.ok THEN {embedded}
    ELSE LET query_vector == embedded.val
             limit == LimitOf(options)
             threshold == ThresholdOf(options)
             candidates == search_vector(vs, query_vector, options.namespace,
                                         limit * 3, threshold)
         IN  IF ~candidates.ok THEN {candidates}
             ELSE LET found == IF hierarchical
                               THEN hierarchical_search(ns, query_vector, candidates.val,
                                                        threshold, default_max_depth)
                               ELSE {flat_search(ns, candidates.val, limit)}
                  IN  {IF ~results.ok THEN results
                       ELSE Ok([matches |-> results.val,
                                total_searched |-> Len(candidates.val)]) :
                         results \in found}

\* the outcomes of Retriever::search, the query embedded as the embedder
\* answered (embedded) and the retriever configured hierarchical or flat
search(ns, vs, embedded, options, hierarchical) ==
    IF ~embedded.ok THEN {embedded}
    ELSE LET query_vector == embedded.val
             limit == LimitOf(options)
             threshold == ThresholdOf(options)
             candidates == search_vector(vs, query_vector, options.namespace,
                                         limit * 3, threshold)
         IN  IF ~candidates.ok THEN {candidates}
             ELSE LET found == IF hierarchical
                               THEN hierarchical_search(ns, query_vector, candidates.val,
                                                        threshold, default_max_depth)
                               ELSE {flat_search(ns, candidates.val, limit)}
                  IN  {IF ~results.ok THEN results
                       ELSE Ok([matches |-> Take(sort_by_score(results.val), limit),
                                total_searched |-> Len(candidates.val)]) :
                         results \in found}

\* the nodes the store of a retriever is filled with
RetrNodeInputs ==
    {[NodeNew(p, <<"x">>) EXCEPT !.embedding = v] :
        p \in {PDocs, PApi, PIngested, PMem}, v \in {VecX, VecXY}}
    \cup {NodeNew(PApi, <<"x">>)}
    \cup {[NodeDirectory(PDocs) EXCEPT !.embedding = v] : v \in {<<>>, VecX}}

\* what the embedder answers for the query text
Embedded == {Err("Embedding"), Ok(VecX), Ok(VecXY)}

QueryOptions ==
    [namespace : {None, "Knowledge"},
     limit : {NoneV} \cup {Some(l) : l \in 0..MaxLimit},
     threshold : {NoneV, Some(60), Some(100)}]

Search(embedded, options, hierarchical) ==
    /\ Running
    /\ \E val \in search(nodes, vectors, embedded, options, hierarchical) :
        ret' = [op |-> "search", embedded |-> embedded, options |-> options,
                hierarchical |-> hierarchical, val |-> val]
    /\ UNCHANGED <<nodes, vectors, live, steps, files, pc>>

NextRetr ==
    \/ \E node \in RetrNodeInputs : Put(node)
    \/ \E pathway \in {PDocs, PApi}, recursive \in BOOLEAN : Remove(pathway, recursive)
    \/ \E embedded \in Embedded, options \in QueryOptions, hierarchical \in BOOLEAN :
            Search(embedded, options, hierarchical)

SpecRetr == Init /\ [][NextRetr]_vars

(***************************************************************************)
(* Properties of Retriever::search, checked under SpecRetr.                *)
(***************************************************************************)
\* C9: no pathway occurs twice in the matches of a search, and no stored
\* leaf is reported by two of them (as a direct hit and again as a
\* descendant of an expanded directory).
C9_NoPathwayTwice ==
    (ret.op = "search" /\ ret.val.ok) =>
        LET m == ret.val.val.matches
        IN  \A i, j \in 1..Len(m) :
                i # j => /\ m[i].pathway # m[j].pathway
                         /\ get(nodes, m[i].pathway) # get(nodes, m[j].pathway)

\* C10: flat or hierarchical, the matches of a search are in non-increasing
\* order of score, at most limit many, and none scores below the threshold.
C10_ResultShape ==
    (ret.op = "search" /\ ret.val.ok) =>
        LET m == ret.val.val.matches
        IN  /\ Len(m) <= LimitOf(ret.options)
            /\ \A i, j \in 1..Len(m) : i < j => m[i].score >= m[j].score
            /\ \A i \in 1..Len(m) : m[i].score >= ThresholdOf(ret.options)

\* C10 witness: a hierarchical search with limit 1 over a store holding two
\* embedded leaves that meet the threshold with different scores returned
\* the better one alone.
C10_Witness ==
    /\ ret.op = "search" /\ ret.val.ok
    /\ ret.hierarchical
    /\ ret.options.limit = Some(1)
    /\ Len(ret.val.val.matches) = 1
    /\ \E k \in DOMAIN nodes :
        /\ ~nodes[k].is_directory
        /\ cosine_similarity(ret.embedded.val, nodes[k].embedding) >= ThresholdOf(ret.options)
        /\ cosine_similarity(ret.embedded.val, nodes[k].embedding)
                < ret.val.val.matches[1].score


(***************************************************************************)
(* ingest.rs: files ingested one by one into a MemoryStorage that a        *)
(* hierarchical Retriever then searches.                                   *)
(***************************************************************************)
\* a node three levels below the root of its namespace
PDeep == Pathway("Knowledge", <<SegDocs, SegApi, <<"x">>>>)

\* DigestGenerator::generate without an LLM client, for a content of one
\* short sentence: brief and summary are the content
generate_simple(content) == with_content(content, content)

\* Processor::process_file, the file read as content and its text embedded
\* as the embedder answered: the store it leaves and what it returns
process_file(ns, vs, pathway, content, embedded) ==
    LET existing == exists(ns, pathway)
        node == IF existing THEN update_content(get(ns, pathway).val, content)
                ELSE NodeNew(pathway, content)
        digested == [node EXCEPT !.digest = generate_simple(node.content)]
    IN  IF ~embedded.ok THEN [store |-> <<ns, vs>>, val |-> embedded]
        ELSE [store |-> put(ns, vs, [digested EXCEPT !.embedding = embedded.val]),
              val |-> Ok(~existing)]

IngestTargets == {PDocs, PDocs2, PMem, PDeep}

Ingest(pathway, content, embedded) ==
    /\ Running
    /\ steps < MaxFiles
    /\ LET after == process_file(nodes, vectors, pathway, content, embedded)
       IN  /\ nodes' = after.store[1]
           /\ vectors' = after.store[2]
           /\ live' = IF after.val.ok /\ pathway \in DOMAIN live
                      THEN LivePut(live, get(after.store[1], pathway).val)
                      ELSE live
           /\ ret' = [op |-> "process_file", val |-> after.val]
    /\ steps' = steps + 1
    /\ UNCHANGED <<files, pc>>

\* the second pass over a StorageBackend whose get_children answers an
\* error for the directories in failing
RECURSIVE SecondPassOver(_, _, _, _, _, _, _)
SecondPassOver(ns, dirs, query_vector, threshold, results, keys, failing) ==
    IF dirs = <<>> THEN Ok(results)
    ELSE IF Head(dirs) \in failing THEN Err("Storage")
    ELSE SecondPassOver(ns, Tail(dirs), query_vector, threshold,
                        ExploreChildren(get_children_seq(ns, Head(dirs), 2, keys),
                                        query_vector, threshold, results),
                        keys, failing)

\* the outcomes of Retriever::hierarchical_search over such a backend
hierarchical_search_over(ns, query_vector, initial_candidates, threshold, max_depth, failing) ==
    LET first == FirstPass(ns, initial_candidates, threshold, <<>>, {})
    IN  IF ~first.ok THEN {first}
        ELSE {SecondPassOver(ns, Take(dirs, max_depth), query_vector, threshold,
                             first.val.results, keys, failing) :
                dirs \in Orderings(first.val.explored_dirs),
                keys \in Orderings(DOMAIN ns)}

\* the outcomes of a hierarchical Retriever::search over such a backend
search_over(ns, vs, embedded, options, failing) ==
    IF ~embedded.ok THEN {embedded}
    ELSE LET query_vector == embedded.val
             limit == LimitOf(options)
             threshold == ThresholdOf(options)
             candidates == search_vector(vs, query_vector, options.namespace,
                                         limit * 3, threshold)
         IN  IF ~candidates.ok THEN {candidates}
             ELSE {IF ~results.ok THEN results
                   ELSE Ok([matches |-> Take(sort_by_score(results.val), limit),
                            total_searched |-> Len(candidates.val)]) :
                     results \in hierarchical_search_over(ns, query_vector, candidates.val,
                                                          threshold, default_max_depth,
                                                          failing)}

SearchOver(embedded, options, failing) ==
    /\ Running
    /\ \E val \in search_over(nodes, vectors, embedded, options, failing) :
        ret' = [op |-> "search", embedded |-> embedded, options |-> options,
                hierarchical |-> TRUE, failing |-> failing, val |-> val]
    /\ UNCHANGED <<nodes, vectors, live, steps, files, pc>>

\* Retriever::search of a retriever configured with rerank = true: the
\* flag is read nowhere in search
SearchReranking(embedded, options, hierarchical) ==
    /\ Running
    /\ \E val \in search(nodes, vectors, embedded, options, hierarchical) :
        ret' = [op |-> "search", embedded |-> embedded, options |-> options,
                hierarchical |-> hierarchical, rerank |-> TRUE, val |-> val]
    /\ UNCHANGED <<nodes, vectors, live, steps, files, pc>>

\* the files ingested: a target and the text of the file
IngestFiles ==
    {[pathway |-> p, content |-> <<"x">>] : p \in IngestTargets}
    \cup {[pathway |-> PDocs2, content |-> <<"y">>]}

NextExpand ==
    \/ \E file \in IngestFiles, embedded \in Embedded :
            Ingest(file.pathway, file.content, embedded)
    \/ \E limit \in 1..MaxLimit :
            SearchReranking(Ok(VecX), [namespace |-> None, limit |-> Some(limit),
                                       threshold |-> Some(60)], TRUE)
    \/ \E limit \in 1..MaxLimit, threshold \in {NoneV, Some(60)} :
            Search(Ok(VecX), [namespace |-> None, limit |-> Some(limit),
                              threshold |-> threshold], TRUE)
    \/ \E limit \in 1..MaxLimit, failing \in {{root("Knowledge")}, {root("Memory")}} :
            SearchOver(Ok(VecX), [namespace |-> None, limit |-> Some(limit),
                                  threshold |-> Some(60)], failing)

SpecExpand == Init /\ [][NextExpand]_vars

(***************************************************************************)
(* Properties of the hierarchical expansion, checked under SpecExpand.     *)
(***************************************************************************)
\* the directories a hierarchical search marks: the directory hits and the
\* parents of the leaf hits
Marked(ns, candidates) ==
    {candidates[i].pathway : i \in {j \in 1..Len(candidates) :
                                      get(ns, candidates[j].pathway).val.is_directory}}
    \cup {parent(candidates[i].pathway).val :
            i \in {j \in 1..Len(candidates) :
                     /\ ~get(ns, candidates[j].pathway).val.is_directory
                     /\ parent(candidates[j].pathway).some}}

\* C11: every embedded, non-directory node lying 1 to max_depth levels below
\* a marked directory and scoring at least the threshold is in the combined
\* result set of the hierarchical search, before it is cut to limit.
C11_ExpansionCovers ==
    (ret.op = "search" /\ ret.hierarchical /\ ret.embedded.ok) =>
        LET query_vector == ret.embedded.val
            threshold == ThresholdOf(ret.options)
            candidates == search_vector(vectors, query_vector, ret.options.namespace,
                                        LimitOf(ret.options) * 3, threshold)
        IN  (candidates.ok
             /\ \A i \in 1..Len(candidates.val) : get(nodes, candidates.val[i].pathway).ok) =>
                \A combined \in hierarchical_search(nodes, query_vector, candidates.val,
                                                    threshold, default_max_depth) :
                    /\ combined.ok
                    /\ \A d \in Marked(nodes, candidates.val), n \in Stored(nodes) :
                        (/\ SegmentPrefix(d, n.pathway)
                         /\ depth(n.pathway) - depth(d) >= 1
                         /\ depth(n.pathway) - depth(d) <= default_max_depth
                         /\ ~n.is_directory
                         /\ n.embedding # <<>>
                         /\ cosine_similarity(query_vector, n.embedding) >= threshold)
                        => \E i \in 1..Len(combined.val) :
                                combined.val[i].pathway = n.pathway


(***************************************************************************)
(* Error handling of Retriever::search, checked under SpecRetr.            *)
(***************************************************************************)
\* C12: when the embedder fails on the query text, the search returns a
\* Retrieval error and nothing else: no matches, and the store and the
\* index are as they were.
C12_EmbedFailureAborts ==
    [][\A embedded \in Embedded, options \in QueryOptions, hierarchical \in BOOLEAN :
        (Search(embedded, options, hierarchical) /\ ~embedded.ok) =>
            /\ ~ret'.val.ok
            /\ "val" \notin DOMAIN ret'.val
            /\ ret'.val.err = "Retrieval"
            /\ UNCHANGED <<nodes, vectors>>]_vars


(***************************************************************************)
(* Failures of the backend during expansion, checked under SpecExpand.     *)
(***************************************************************************)
\* C13: a hierarchical search over a backend that fails to fetch the
\* descendants of a marked directory still succeeds, and returns at least
\* the direct leaf hits, up to limit.
C13_ExpansionBestEffort ==
    (ret.op = "search" /\ "failing" \in DOMAIN ret /\ ret.embedded.ok) =>
        LET threshold == ThresholdOf(ret.options)
            limit == LimitOf(ret.options)
            candidates == search_vector(vectors, ret.embedded.val, ret.options.namespace,
                                        limit * 3, threshold)
            first == FirstPass(nodes, candidates.val, threshold, <<>>, {})
        IN  (candidates.ok /\ first.ok) =>
                /\ ret.val.ok
                /\ Len(ret.val.val.matches) >= Min(limit, Len(first.val.results))


(***************************************************************************)
(* rerank/mock.rs, rerank/openai.rs: the rerankers.  A score is an f32:    *)
(* a number in hundredths, or NaN.                                         *)
(***************************************************************************)
F32(v) == [nan |-> FALSE, v |-> v]

NaN == [nan |-> TRUE, v |-> 0]

\* a.partial_cmp(b) == Some(Less)
ScoreLess(a, b) == ~a.nan /\ ~b.nan /\ a.v < b.v

\* the comparator |a, b| b.score.partial_cmp(&a.score).unwrap_or(Equal)
\* answers Less: a is ranked before b
RankedBefore(a, b) == ScoreLess(b.score, a.score)

\* slice::sort_by on a short slice: a stable insertion sort, each element
\* shifted left past the elements it is ranked before
RECURSIVE InsertRanked(_, _)
InsertRanked(sorted, r) ==
    IF sorted = <<>> THEN <<r>>
    ELSE IF RankedBefore(r, sorted[Len(sorted)])
    THEN Append(InsertRanked(SubSeq(sorted, 1, Len(sorted) - 1), r), sorted[Len(sorted)])
    ELSE Append(sorted, r)

RECURSIVE sort_ranked(_)
sort_ranked(results) ==
    IF results = <<>> THEN <<>>
    ELSE InsertRanked(sort_ranked(SubSeq(results, 1, Len(results) - 1)),
                      results[Len(results)])

RerankDocument(id, text) == [id |-> id, text |-> text]

RerankResult(id, index, score) == [id |-> id, index |-> index, score |-> score]

\* the sum of the bytes of a text; the u64 accumulator of the source wraps
\* only for texts of more than 2^56 bytes
RECURSIVE ByteSum(_)
ByteSum(text) ==
    IF text = <<>> THEN 0 ELSE CharCode(Head(text)) + ByteSum(Tail(text))

\* MockReranker::rerank; calls counts the external requests made
MockRerank(documents, top_n) ==
    [val |-> Ok(Take(sort_ranked([i \in 1..Len(documents) |->
                        RerankResult(documents[i].id, i - 1,
                                     F32(ByteSum(documents[i].text) % 100))]),
                     top_n)),
     calls |-> 0]

\* what the chat completion answers for one document: a failed request, or
\* the content of the first choice
Responses == {"error", "5", "10", "NaN", "high"}

\* content.parse::<f32>().unwrap_or(0.0) / 10.0
ParseScore(content) ==
    CASE content = "5" -> F32(50)
      [] content = "10" -> F32(100)
      [] content = "NaN" -> NaN
      [] OTHER -> F32(0)

\* OpenAIReranker::rerank, the i-th request answered by responses[i]
OpenAIRerank(documents, top_n, responses) ==
    IF documents = <<>> THEN [val |-> Ok(<<>>), calls |-> 0]
    ELSE IF \E i \in 1..Len(documents) : responses[i] = "error"
    THEN [val |-> Err("Rerank"),
          calls |-> CHOOSE i \in 1..Len(documents) :
                        /\ responses[i] = "error"
                        /\ \A j \in 1..(i - 1) : responses[j] # "error"]
    ELSE [val |-> Ok(Take(sort_ranked([i \in 1..Len(documents) |->
                            RerankResult(documents[i].id, i - 1,
                                         ParseScore(responses[i]))]),
                          top_n)),
          calls |-> Len(documents)]

DocIds == <<"doc1", "doc2", "doc3", "doc4">>

DocTexts == {<<"a", "a", "a">>, <<"z", "z", "z">>, <<"a">>}

\* the document lists of n documents, the ids distinct
Documents(n) ==
    {[i \in 1..n |-> RerankDocument(DocIds[i], texts[i])] : texts \in [1..n -> DocTexts]}

RerankMock(documents, top_n) ==
    /\ Running
    /\ LET out == MockRerank(documents, top_n)
       IN  ret' = [op |-> "rerank", reranker |-> "mock", documents |-> documents,
                   top_n |-> top_n, val |-> out.val, calls |-> out.calls]
    /\ UNCHANGED <<nodes, vectors, live, steps, files, pc>>

RerankOpenAI(documents, top_n, responses) ==
    /\ Running
    /\ LET out == OpenAIRerank(documents, top_n, responses)
       IN  ret' = [op |-> "rerank", reranker |-> "openai", documents |-> documents,
                   top_n |-> top_n, val |-> out.val, calls |-> out.calls]
    /\ UNCHANGED <<nodes, vectors, live, steps, files, pc>>

NextRerank ==
    \/ \E n \in 0..MaxDocs : \E documents \in Documents(n), top_n \in 0..MaxDocs :
            RerankMock(documents, top_n)
    \/ \E n \in 0..MaxDocs : \E top_n \in 0..MaxDocs, responses \in [1..n -> Responses] :
            RerankOpenAI([i \in 1..n |-> RerankDocument(DocIds[i], <<"a">>)],
                         top_n, responses)

SpecRerank == Init /\ [][NextRerank]_vars

(***************************************************************************)
(* The reranker contract, checked under SpecRerank.                        *)
(***************************************************************************)
\* C15: a rerank that succeeds returns nothing for no documents, without an
\* external call; at most top_n results; no result scoring less than a later
\* one; each result with the id and the input index of a document, no
\* document twice.
C15_RerankerContract ==
    (ret.op = "rerank" /\ ret.val.ok) =>
        LET r == ret.val.val
        IN  /\ ret.documents = <<>> => (r = <<>> /\ ret.calls = 0)
            /\ Len(r) <= ret.top_n
            /\ \A i, j \in 1..Len(r) : i < j => ~ScoreLess(r[i].score, r[j].score)
            /\ \A i \in 1..Len(r) :
                /\ r[i].index \in 0..(Len(ret.documents) - 1)
                /\ r[i].id = ret.documents[r[i].index + 1].id
            /\ \A i, j \in 1..Len(r) : i # j => r[i].index # r[j].index


(***************************************************************************)
(* The reranking step of Retriever::search, checked under SpecExpand with  *)
(* the MockReranker as the reranker and the brief of a match as its text.  *)
(***************************************************************************)
\* the score the MockReranker gives a match
MockScoreOf(match) ==
    MockRerank(<<RerankDocument(to_string(match.pathway), match.brief)>>, 1).val.val[1].score

\* C14: when reranking is requested, the matches of a search are in the
\* reranker's order: none is scored less by the reranker than a later one.
C14_RerankedOrder ==
    (ret.op = "search" /\ "rerank" \in DOMAIN ret /\ ret.val.ok) =>
        LET m == ret.val.val.matches
        IN  \A i, j \in 1..Len(m) :
                i < j => ~ScoreLess(MockScoreOf(m[i]), MockScoreOf(m[j]))

(***************************************************************************)
(* storage/local.rs: LocalStorage.  nodes is the cache, vectors the index, *)
(* files the records under root_path: file path (relative to root_path)    *)
(* to the node the record deserialises to.  A record is the serde derive   *)
(* of Node, field by field, so the node read is the node written.          *)
(***************************************************************************)
\* number of calls that change a LocalStorage in one behaviour
MaxLocalOps == 3

\* the position of the last c in s, 0 when there is none
LastIndexOf(s, c) ==
    IF \E i \in 1..Len(s) : s[i] = c
    THEN CHOOSE i \in 1..Len(s) : s[i] = c /\ \A j \in (i + 1)..Len(s) : s[j] # c
    ELSE 0

\* str::replace
RECURSIVE Replace(_, _, _)
Replace(s, from, to) ==
    IF s = <<>> THEN <<>>
    ELSE IF StartsWith(s, from) THEN to \o Replace(DropFirst(s, Len(from)), from, to)
    ELSE <<Head(s)>> \o Replace(Tail(s), from, to)

\* PathBuf::with_extension on a path whose last component is a file name:
\* the text after the last "." of that name is replaced (a name with no
\* "." after its first character has no extension and gets one appended)
with_extension(path, ext) ==
    LET slash == LastIndexOf(path, "/")
        name == DropFirst(path, slash)
        dot == LastIndexOf(name, ".")
        stem == IF dot <= 1 THEN name ELSE SubSeq(name, 1, dot - 1)
    IN  SubSeq(path, 1, slash) \o stem \o <<".">> \o ext

\* Path::parent: <<>> stands for root_path itself
path_parent(path) ==
    IF LastIndexOf(path, "/") = 0 THEN <<>>
    ELSE SubSeq(path, 1, LastIndexOf(path, "/") - 1)

node_path(pathway) ==
    with_extension(Replace(to_relative(pathway), <<":", "/", "/">>, <<"/">>),
                   <<"j", "s", "o", "n">>)

\* fs::remove_dir_all: every record below the directory goes
remove_dir_all(fs, dir) ==
    [k \in {x \in DOMAIN fs : ~(dir = <<>> \/ StartsWith(x, dir \o <<"/">>))} |-> fs[k]]

load_node(fs, pathway) ==
    IF node_path(pathway) \in DOMAIN fs THEN Ok(fs[node_path(pathway)])
    ELSE Err("NodeNotFound")

save_node(fs, node) == MapInsert(fs, node_path(node.pathway), node)

\* the state LocalStorage::put leaves: <<nodes, vectors, files>>
local_put(ns, vs, fs, node) ==
    <<MapInsert(ns, to_string(node.pathway), node),
      IF node.embedding # <<>> THEN IndexAdd(vs, node.pathway, node.embedding) ELSE vs,
      save_node(fs, node)>>

\* LocalStorage::get: the cache it leaves and what it returns
local_get(ns, fs, pathway) ==
    IF to_string(pathway) \in DOMAIN ns
    THEN [store |-> ns, val |-> Ok(ns[to_string(pathway)])]
    ELSE IF ~load_node(fs, pathway).ok THEN [store |-> ns, val |-> load_node(fs, pathway)]
    ELSE [store |-> MapInsert(ns, to_string(pathway), load_node(fs, pathway).val),
          val |-> load_node(fs, pathway)]

local_exists(ns, fs, pathway) ==
    to_string(pathway) \in DOMAIN ns \/ node_path(pathway) \in DOMAIN fs

\* the state LocalStorage::remove leaves: <<nodes, vectors, files>>.  A
\* directory that does not exist holds no record, so the parent.exists()
\* and path.exists() tests do not show in the records.
local_remove(ns, vs, fs, pathway, recursive) ==
    <<IF recursive
      THEN [k \in {x \in DOMAIN ns : ~is_prefix_of(pathway, ns[x].pathway)} |-> ns[k]]
      ELSE MapRemove(ns, to_string(pathway)),
      IndexRemove(vs, pathway),
      IF recursive THEN remove_dir_all(fs, path_parent(node_path(pathway)))
      ELSE MapRemove(fs, node_path(pathway))>>

\* the state LocalStorage::update_embedding leaves: <<nodes, vectors, files>>
local_update_embedding(ns, vs, fs, pathway, embedding) ==
    IF to_string(pathway) \in DOMAIN ns
    THEN LET entry == [ns[to_string(pathway)] EXCEPT !.embedding = embedding]
         IN  <<MapInsert(ns, to_string(pathway), entry),
               IndexAdd(vs, pathway, embedding),
               save_node(fs, entry)>>
    ELSE <<ns, vs, fs>>

\* the state LocalStorage::update_digest leaves: <<nodes, files>>
local_update_digest(ns, fs, pathway, digest) ==
    IF to_string(pathway) \in DOMAIN ns
    THEN LET entry == [ns[to_string(pathway)] EXCEPT !.digest = digest]
         IN  <<MapInsert(ns, to_string(pathway), entry), save_node(fs, entry)>>
    ELSE <<ns, fs>>

\* LocalStorage::put when save_node returns an error: the `?` returns before
\* the index and the cache are touched (what the failed write left on disk
\* is not modelled: the records are kept as they were)
local_put_failing(ns, vs, fs, node) == <<ns, vs, fs>>

\* LocalStorage::update_embedding when save_node returns an error: the entry
\* was assigned through the guard before the write, the index is not reached
local_update_embedding_failing(ns, vs, fs, pathway, embedding) ==
    <<[ns EXCEPT ![to_string(pathway)].embedding = embedding], vs, fs>>

\* LocalStorage::update_digest when save_node returns an error
local_update_digest_failing(ns, fs, pathway, digest) ==
    <<[ns EXCEPT ![to_string(pathway)].digest = digest], fs>>

\* LocalStorage::new over the same root_path followed by initialize: an
\* empty cache and index, the records as they are
local_new_initialize(fs) == <<EmptyMap, EmptyMap, fs>>

SegReadmeMd == <<"r", ".", "m">>

SegReadmeTxt == <<"r", ".", "t">>

PReadmeMd == Pathway("Knowledge", <<SegDocs, SegReadmeMd>>)

PReadmeTxt == Pathway("Knowledge", <<SegDocs, SegReadmeTxt>>)

LocalPaths == {PDocs, PDocs2, PApi, PReadmeMd, PReadmeTxt}

LocalNodeInputs ==
    {[NodeNew(p, <<"x">>) EXCEPT !.embedding = e] : p \in LocalPaths, e \in {<<>>, VecX}}

InitLocal ==
    /\ nodes = EmptyMap
    /\ vectors = EmptyMap
    /\ files = EmptyMap
    /\ live = [q \in LocalPaths |-> Absent("init")]
    /\ ret = [op |-> "init"]
    /\ steps = 0
    /\ pc = EmptyMap

LocalPut(node) ==
    /\ Running
    /\ steps < MaxLocalOps
    /\ LET after == local_put(nodes, vectors, files, node)
       IN  nodes' = after[1] /\ vectors' = after[2] /\ files' = after[3]
    /\ live' = LivePut(live, node)
    /\ ret' = [op |-> "put", node |-> node, val |-> Ok(<<>>)]
    /\ steps' = steps + 1
    /\ UNCHANGED pc

LocalRemove(pathway, recursive) ==
    /\ Running
    /\ steps < MaxLocalOps
    /\ LET after == local_remove(nodes, vectors, files, pathway, recursive)
       IN  nodes' = after[1] /\ vectors' = after[2] /\ files' = after[3]
    /\ live' = LiveRemove(live, pathway, recursive)
    /\ ret' = [op |-> "remove", pathway |-> pathway, recursive |-> recursive,
               val |-> Ok(<<>>)]
    /\ steps' = steps + 1
    /\ UNCHANGED pc

LocalUpdateEmbedding(pathway, embedding) ==
    /\ Running
    /\ steps < MaxLocalOps
    /\ LET after == local_update_embedding(nodes, vectors, files, pathway, embedding)
       IN  nodes' = after[1] /\ vectors' = after[2] /\ files' = after[3]
    /\ live' = LiveUpdateEmbedding(live, pathway, embedding)
    /\ ret' = [op |-> "update_embedding", pathway |-> pathway,
               embedding |-> embedding, val |-> Ok(<<>>)]
    /\ steps' = steps + 1
    /\ UNCHANGED pc

LocalUpdateDigest(pathway, digest) ==
    /\ Running
    /\ steps < MaxLocalOps
    /\ LET after == local_update_digest(nodes, files, pathway, digest)
       IN  nodes' = after[1] /\ files' = after[2]
    /\ live' = LiveUpdateDigest(live, pathway, digest)
    /\ ret' = [op |-> "update_digest", pathway |-> pathway, digest |-> digest,
               val |-> Ok(<<>>)]
    /\ steps' = steps + 1
    /\ UNCHANGED <<vectors, pc>>

\* the process ends and a new LocalStorage is opened over the same root;
\* ret keeps what the earlier instance held
Restart ==
    /\ Running
    /\ steps < MaxLocalOps
    /\ LET after == local_new_initialize(files)
       IN  nodes' = after[1] /\ vectors' = after[2] /\ files' = after[3]
    /\ ret' = [op |-> "initialize", nodes |-> nodes, vectors |-> vectors, val |-> Ok(<<>>)]
    /\ steps' = steps + 1
    /\ UNCHANGED <<live, pc>>

\* get fills the cache, so it is a step like the others
LocalGet(pathway) ==
    /\ Running
    /\ steps < MaxLocalOps
    /\ nodes' = local_get(nodes, files, pathway).store
    /\ ret' = [op |-> "local_get", pathway |-> pathway,
               val |-> local_get(nodes, files, pathway).val]
    /\ steps' = steps + 1
    /\ UNCHANGED <<vectors, files, live, pc>>

LocalExists(pathway) ==
    /\ Running
    /\ ret' = [op |-> "exists", pathway |-> pathway,
               val |-> Ok(local_exists(nodes, files, pathway))]
    /\ UNCHANGED <<nodes, vectors, live, steps, files, pc>>

\* the calls below are those whose write to stable storage fails; an update
\* of a pathway that is not cached writes nothing and cannot fail
LocalPutFails(node) ==
    /\ Running
    /\ steps < MaxLocalOps
    /\ LET after == local_put_failing(nodes, vectors, files, node)
       IN  nodes' = after[1] /\ vectors' = after[2] /\ files' = after[3]
    /\ ret' = [op |-> "put", node |-> node, val |-> Err("Io")]
    /\ steps' = steps + 1
    /\ UNCHANGED <<live, pc>>

LocalUpdateEmbeddingFails(pathway, embedding) ==
    /\ Running
    /\ steps < MaxLocalOps
    /\ to_string(pathway) \in DOMAIN nodes
    /\ LET after == local_update_embedding_failing(nodes, vectors, files, pathway, embedding)
       IN  nodes' = after[1] /\ vectors' = after[2] /\ files' = after[3]
    /\ ret' = [op |-> "update_embedding", pathway |-> pathway,
               embedding |-> embedding, val |-> Err("Io")]
    /\ steps' = steps + 1
    /\ UNCHANGED <<live, pc>>

LocalUpdateDigestFails(pathway, digest) ==
    /\ Running
    /\ steps < MaxLocalOps
    /\ to_string(pathway) \in DOMAIN nodes
    /\ LET after == local_update_digest_failing(nodes, files, pathway, digest)
       IN  nodes' = after[1] /\ files' = after[2]
    /\ ret' = [op |-> "update_digest", pathway |-> pathway, digest |-> digest,
               val |-> Err("Io")]
    /\ steps' = steps + 1
    /\ UNCHANGED <<vectors, live, pc>>

NextLocal ==
    \/ \E node \in LocalNodeInputs : LocalPut(node)
    \/ \E node \in LocalNodeInputs : LocalPutFails(node)
    \/ \E pathway \in LocalPaths : LocalUpdateEmbeddingFails(pathway, VecXY)
    \/ \E pathway \in LocalPaths : LocalUpdateDigestFails(pathway, DigestGenerated)
    \/ \E pathway \in LocalPaths, recursive \in BOOLEAN : LocalRemove(pathway, recursive)
    \/ \E pathway \in LocalPaths : LocalUpdateEmbedding(pathway, VecXY)
    \/ \E pathway \in LocalPaths : LocalUpdateDigest(pathway, DigestGenerated)
    \/ Restart
    \/ \E pathway \in LocalPaths : LocalGet(pathway)
    \/ \E pathway \in LocalPaths : LocalExists(pathway)

SpecLocal == InitLocal /\ [][NextLocal]_vars

(***************************************************************************)
(* Properties of LocalStorage, checked under SpecLocal.                    *)
(***************************************************************************)
\* C16: durable rehydration.  Once a LocalStorage has been opened over the
\* records of an earlier instance and initialize has returned, get and exists
\* find every node put and not removed, as it was last written, and list,
\* stats, get_children and search_vector answer as the earlier instance did.
C16_Rehydration ==
    ret.op = "initialize" =>
        /\ \A p \in LocalPaths :
              IsNode(live[p]) =>
                  /\ local_exists(nodes, files, p)
                  /\ local_get(nodes, files, p).val = Ok(live[p])
        /\ \A p \in LocalPaths \cup {root("Knowledge")} :
              /\ list(nodes, p) = list(ret.nodes, p)
              /\ get_children(nodes, p, 2) = get_children(ret.nodes, p, 2)
        /\ stats(nodes) = stats(ret.nodes)
        /\ search_vector(vectors, VecX, None, MaxLimit, 0)
             = search_vector(ret.vectors, VecX, None, MaxLimit, 0)

\* C17: the records track the cache.  A put, remove, update_embedding or
\* update_digest on a LocalStorage whose records equal its cached nodes
\* leaves them equal, and remove(p, recursive = true) deletes the records of
\* p and of its descendants and no other record.
C17_DiskTracksCache ==
    [][(/\ ret'.op \in {"put", "remove", "update_embedding", "update_digest"}
        /\ Stored(files) = Stored(nodes))
       => /\ Stored(files') = Stored(nodes')
          /\ (ret'.op = "remove" /\ ret'.recursive) =>
                Stored(files') = {n \in Stored(files) : ~is_prefix_of(ret'.pathway, n.pathway)}]_vars

\* C18: one record per node.  No two distinct pathways that hold a node
\* share a record file; exists(p) is true only if a node was put at p and
\* not removed; get(p) never returns a node with another pathway.
C18_OneRecordPerNode ==
    /\ \A p, q \in LocalPaths :
          (p # q /\ IsNode(live[p]) /\ IsNode(live[q])) => node_path(p) # node_path(q)
    /\ (ret.op = "exists" /\ ret.val.val) => IsNode(live[ret.pathway])
    /\ (ret.op = "local_get" /\ ret.val.ok) => ret.val.val.pathway = ret.pathway

(***************************************************************************)
(* Properties of list and get_children, checked under Spec.                *)
(***************************************************************************)
\* the stored nodes whose segments are those of p followed by between lo
\* and hi more
Below(ns, p, lo, hi) ==
    {n \in Stored(ns) :
        /\ n.pathway.namespace = p.namespace
        /\ Len(n.pathway.segments) - Len(p.segments) \in lo..hi
        /\ SubSeq(n.pathway.segments, 1, Len(p.segments)) = p.segments}

\* C19: list(p) returns exactly the stored nodes one segment below p, each
\* once: no deeper descendant, not the node at p, nothing of another
\* namespace.
C19_ListDirectChildren ==
    ret.op = "list" =>
        LET result == ret.val.val
        IN  /\ ret.val.ok
            /\ {result[i].pathway : i \in 1..Len(result)}
                 = {n.pathway : n \in Below(nodes, ret.pathway, 1, 1)}
            /\ \A i, j \in 1..Len(result) : result[i].pathway = result[j].pathway => i = j
            /\ \A i \in 1..Len(result) :
                  /\ result[i].pathway # ret.pathway
                  /\ result[i].pathway.namespace = ret.pathway.namespace
                  /\ Len(result[i].pathway.segments) = Len(ret.pathway.segments) + 1

\* a list that returned a child while the store held a deeper descendant
C19_Witness ==
    /\ ret.op = "list"
    /\ ret.val.val # <<>>
    /\ Below(nodes, ret.pathway, 2, 2) # {}

\* C20: get_children(p, max_depth) returns exactly the stored nodes between
\* 1 and max_depth segments below p: never the node at p, nothing for
\* max_depth = 0, and no subtraction of depths overflows.
C20_GetChildrenWindow ==
    ret.op = "get_children" =>
        /\ ret.val.ok
        /\ \A d \in depth_differences(nodes, ret.pathway) : d.ok
        /\ Range(ret.val.val) = Below(nodes, ret.pathway, 1, ret.max_depth)
        /\ Len(ret.val.val) = Cardinality(Below(nodes, ret.pathway, 1, ret.max_depth))
        /\ \A n \in Range(ret.val.val) : n.pathway # ret.pathway
        /\ ret.max_depth = 0 => ret.val.val = <<>>

\* a get_children that returned a child while the node at p was stored too
C20_Witness ==
    /\ ret.op = "get_children"
    /\ ret.val.ok
    /\ ret.val.val # <<>>
    /\ \E n \in Stored(nodes) : n.pathway = ret.pathway

(***************************************************************************)
(* Properties of the updates, checked under Spec.                          *)
(***************************************************************************)
\* the store and the index agree before and after the step except at key k
OthersUnchanged(k) ==
    /\ DOMAIN nodes' = DOMAIN nodes
    /\ \A x \in DOMAIN nodes \ {k} : nodes'[x] = nodes[x]
    /\ DOMAIN vectors' \ {k} = DOMAIN vectors \ {k}
    /\ \A x \in DOMAIN vectors \ {k} : vectors'[x] = vectors[x]

MaxTail == 3
\* number of join and parent calls in one behaviour
MaxJoins == 2

\* the sequences over S of length at most n
RECURSIVE SeqsUpTo(_, _)
SeqsUpTo(S, n) ==
    IF n = 0 THEN {<<>>}
    ELSE SeqsUpTo(S, n - 1) \cup {Append(t, c) : t \in SeqsUpTo(S, n - 1), c \in S}

\* the three forms of an address
Forms == {PROTOCOL, <<"/">>, <<>>}

\* the text in the place of the namespace: two namespaces and a word that is none
NamespaceTexts == {as_str("Knowledge"), as_str("Memory"), <<"x">>}

TailChars == {"/", "d", "a", " "}

ParseTexts ==
    {form \o ns \o tail : form \in Forms, ns \in NamespaceTexts, tail \in SeqsUpTo(TailChars, MaxTail)}

\* segments handed to join and new: a name, the empty string, a null byte,
\* a relative path
JoinSegments == {SegApi, <<>>, <<"NUL">>, <<"d", "/", "a">>}

\* Pathway::knowledge, Pathway::memory
knowledge(path) == parse(PROTOCOL \o as_str("Knowledge") \o <<"/">> \o path)

memory(path) == parse(PROTOCOL \o as_str("Memory") \o <<"/">> \o path)

PwParse(text) ==
    /\ ret.op = "init"
    /\ ret' = [op |-> "parse", text |-> text, val |-> parse(text)]
    /\ UNCHANGED <<nodes, vectors, live, steps, files, pc>>

PwRoot(ns) ==
    /\ ret.op = "init"
    /\ ret' = [op |-> "root", val |-> Ok(root(ns))]
    /\ UNCHANGED <<nodes, vectors, live, steps, files, pc>>

PwNew(ns, segs) ==
    /\ ret.op = "init"
    /\ ret' = [op |-> "new", val |-> Ok(Pathway(ns, segs))]
    /\ UNCHANGED <<nodes, vectors, live, steps, files, pc>>

PwHelper(path) ==
    /\ ret.op = "init"
    /\ \/ ret' = [op |-> "knowledge", text |-> path, val |-> knowledge(path)]
       \/ ret' = [op |-> "memory", text |-> path, val |-> memory(path)]
    /\ UNCHANGED <<nodes, vectors, live, steps, files, pc>>

PwJoin(segment) ==
    /\ ret.op # "init" /\ ret.val.ok
    /\ steps < MaxJoins
    /\ ret' = [op |-> "join", from |-> ret.val.val, segment |-> segment,
               val |-> Ok(join(ret.val.val, segment))]
    /\ steps' = steps + 1
    /\ UNCHANGED <<nodes, vectors, live, files, pc>>

PwParent ==
    /\ ret.op # "init" /\ ret.val.ok
    /\ steps < MaxJoins
    /\ parent(ret.val.val).some
    /\ ret' = [op |-> "parent", from |-> ret.val.val, val |-> Ok(parent(ret.val.val).val)]
    /\ steps' = steps + 1
    /\ UNCHANGED <<nodes, vectors, live, files, pc>>

NextPathway ==
    \/ \E text \in ParseTexts : PwParse(text)
    \/ \E ns \in Namespace : PwRoot(ns)
    \/ \E ns \in {"Knowledge", "Memory"}, segs \in SeqsUpTo(JoinSegments, 1) : PwNew(ns, segs)
    \/ \E path \in SeqsUpTo(TailChars, MaxTail - 1) : PwHelper(path)
    \/ \E segment \in JoinSegments : PwJoin(segment)
    \/ PwParent

SpecPathway == Init /\ [][NextPathway]_vars

\* C22: string round trip.  For every text parse accepts, in any of the
\* three forms and with repeated or trailing slashes, the canonical text of
\* the parsed pathway parses to the same pathway; and the three forms of one
\* address parse to equal pathways.
C22_StringRoundTrip ==
    (ret.op = "parse" /\ ret.val.ok) =>
        /\ parse(to_string(ret.val.val)) = ret.val
        /\ \A form \in Forms, ns \in NamespaceTexts, tail \in SeqsUpTo(TailChars, MaxTail) :
              ret.text = form \o ns \o tail =>
                  \A other \in Forms : parse(other \o ns \o tail) = ret.val

\* C23: value round trip.  Every pathway a public constructor returns has
\* only non-empty segments without a null byte, and its canonical text
\* parses back to it.
C23_ValueRoundTrip ==
    (ret.op # "init" /\ ret.val.ok) =>
        /\ \A i \in 1..Len(ret.val.val.segments) :
              /\ ret.val.val.segments[i] # <<>>
              /\ "NUL" \notin Range(ret.val.val.segments[i])
        /\ parse(to_string(ret.val.val)) = ret.val

\* the pathways the laws of is_prefix_of are tried against
LawPathways == Paths \cup {root(ns) : ns \in Namespace}

\* C24: is_prefix_of is reflexive; a parent is a prefix of its child and the
\* child is not a prefix of its parent; pathways of different namespaces are
\* never prefixes of one another; the parent of p.join(s) is p.
C24_PrefixLaws ==
    (ret.op # "init" /\ ret.val.ok) =>
        LET c == ret.val.val
        IN  /\ is_prefix_of(c, c)
            /\ parent(c).some =>
                  /\ is_prefix_of(parent(c).val, c)
                  /\ ~is_prefix_of(c, parent(c).val)
            /\ \A q \in LawPathways :
                  q.namespace # c.namespace => ~is_prefix_of(q, c) /\ ~is_prefix_of(c, q)
            /\ ret.op = "join" => parent(c) = Some(ret.from)
            /\ ret.op = "parent" => is_prefix_of(c, ret.from) /\ ~is_prefix_of(ret.from, c)

\* a join has acted on a pathway with segments, and the result has a parent
C24_Witness ==
    /\ ret.op = "join"
    /\ ret.from.segments # <<>>
    /\ parent(ret.val.val).some
    /\ is_prefix_of(ret.from, ret.val.val)

(***************************************************************************)
(* Reproducibility of VectorIndex::search, checked under SpecIndex.        *)
(***************************************************************************)
\* C25: the result of a search depends only on the entries of the index and
\* on the arguments: whatever order the entries are met in, the list is the
\* same, the order among equal scores and the entries that survive the limit
\* included.
C25_SearchReproducible ==
    (ret.op = "index_search" /\ "iterated" \in DOMAIN ret) =>
        \A order \in Orderings(DOMAIN vectors) :
            IndexSearchIn(vectors, order, ret.query, ret.namespace, ret.limit, ret.threshold)
              = ret.val

\* a search cut by the limit between two entries of equal score
C25_Witness ==
    /\ ret.op = "index_search" /\ "iterated" \in DOMAIN ret
    /\ ret.val.ok
    /\ Len(ret.val.val) = ret.limit
    /\ \E k \in Qualifying(vectors, ret.query, ret.namespace, ret.threshold) :
          /\ k \notin ReturnedKeys(ret.val.val)
          /\ cosine_similarity(ret.query, vectors[k]) = ret.val.val[ret.limit].score

(***************************************************************************)
(* Retriever::search after removals, checked under SpecRetr.               *)
(***************************************************************************)
\* C27: a search issued after any sequence of put and remove succeeds when
\* the embedder succeeds, and every match names a node the store holds.
C27_SearchSurvivesRemovals ==
    (ret.op = "search" /\ ret.embedded.ok) =>
        /\ ret.val.ok
        /\ \A i \in 1..Len(ret.val.val.matches) :
              exists(nodes, ret.val.val.matches[i].pathway)

(***************************************************************************)
(* Retriever::search over a store of embedded directories and leaves.      *)
(***************************************************************************)
\* number of nodes put before the search
MaxStored == 5

PNotes == Pathway("Knowledge", <<SegDocs2, <<"b">>>>)

\* three directories that score 1.0 against VecX and two leaves, in two of
\* them, that score 0.6
DetNodeInputs ==
    {[NodeDirectory(p) EXCEPT !.embedding = VecX] : p \in {PDocs, PDocs2, PMem}}
    \cup {[NodeNew(p, <<"x">>) EXCEPT !.embedding = VecXY] : p \in {PApi, PNotes}}

Fill(node) ==
    /\ Running
    /\ steps < MaxStored
    /\ LET after == put(nodes, vectors, node)
       IN  nodes' = after[1] /\ vectors' = after[2]
    /\ live' = IF node.pathway \in DOMAIN live THEN LivePut(live, node) ELSE live
    /\ ret' = [op |-> "put", node |-> node, val |-> Ok(<<>>)]
    /\ steps' = steps + 1
    /\ UNCHANGED <<files, pc>>

NextDet ==
    \/ \E node \in DetNodeInputs : Fill(node)
    \/ \E limit \in 1..MaxLimit, threshold \in {NoneV, Some(100)}, hierarchical \in BOOLEAN :
          Search(Ok(VecX), [namespace |-> None, limit |-> Some(limit), threshold |-> threshold],
                 hierarchical)

SpecDet == Init /\ [][NextDet]_vars

\* C30: a search is deterministic.  Every outcome the search can produce
\* on the store with the same query vector and options is the one returned,
\* whatever order the directories marked for expansion are visited in.
C30_SearchDeterministic ==
    ret.op = "search" =>
        \A other \in search(nodes, vectors, ret.embedded, ret.options, ret.hierarchical) :
            other = ret.val

(***************************************************************************)
(* Failed writes of LocalStorage, checked under SpecLocal.                 *)
(***************************************************************************)
\* C29: a put, update_embedding or update_digest that returns an error
\* because the write to stable storage failed leaves the node map and the
\* index as they were before the call.
C29_FailedMutationChangesNothing ==
    [][(ret'.op \in {"put", "update_embedding", "update_digest"} /\ ~ret'.val.ok)
       => (nodes' = nodes /\ vectors' = vectors)]_vars

(***************************************************************************)
(* SpecConc: two calls on one MemoryStorage running on two worker threads. *)
(* Neither put nor remove holds a lock across its two DashMap operations   *)
(* (VectorIndex::add and ::remove contain no await point, so the steps of  *)
(* one call interleave with another call's only when the calls run on      *)
(* different threads, as the tasks of a multi-threaded runtime do).        *)
(* pc[t] is the call of task t and the statement it has reached.           *)
(***************************************************************************)
Tasks == {1, 2}

ConcNodeInputs ==
    {[NodeNew(PDocs, <<"x">>) EXCEPT !.embedding = v] : v \in {VecX, VecXY}}

\* the calls the second task may make on the pathway the first one puts
ConcCalls ==
    {[call |-> "put", node |-> n, at |-> "start"] : n \in ConcNodeInputs}
    \cup {[call |-> "remove", pathway |-> PDocs, recursive |-> r, at |-> "start"]
            : r \in BOOLEAN}

Joined == pc # EmptyMap /\ \A t \in Tasks : pc[t].at = "done"

\* the store before the two calls start: up to MaxOps sequential puts
Seed(node) ==
    /\ pc = EmptyMap
    /\ Put(node)

\* tokio::spawn of the two calls; the first is a put
Spawn(first, second) ==
    /\ pc = EmptyMap
    /\ Running
    /\ pc' = <<first, second>>
    /\ ret' = [op |-> "spawn", calls |-> <<first.call, second.call>>]
    /\ UNCHANGED <<nodes, vectors, live, steps, files>>

\* MemoryStorage::put, first statement: the index add of an embedded node
PutIndexAdd(t) ==
    /\ pc # EmptyMap
    /\ pc[t].call = "put" /\ pc[t].at = "start"
    /\ vectors' = IF pc[t].node.embedding # <<>>
                  THEN IndexAdd(vectors, pc[t].node.pathway, pc[t].node.embedding)
                  ELSE vectors
    /\ pc' = [pc EXCEPT ![t].at = "added"]
    /\ UNCHANGED <<nodes, live, ret, steps, files>>

\* MemoryStorage::put, second statement: self.nodes.insert(key, node.clone())
PutNodesInsert(t) ==
    /\ pc # EmptyMap
    /\ pc[t].call = "put" /\ pc[t].at = "added"
    /\ nodes' = MapInsert(nodes, to_string(pc[t].node.pathway), pc[t].node)
    /\ live' = LivePut(live, pc[t].node)
    /\ pc' = [pc EXCEPT ![t].at = "done"]
    /\ UNCHANGED <<vectors, ret, steps, files>>

\* MemoryStorage::remove, the node map part (the keys of a recursive remove
\* are collected and removed in one step)
RemoveNodes(t) ==
    /\ pc # EmptyMap
    /\ pc[t].call = "remove" /\ pc[t].at = "start"
    /\ nodes' = remove(nodes, vectors, pc[t].pathway, pc[t].recursive)[1]
    /\ live' = LiveRemove(live, pc[t].pathway, pc[t].recursive)
    /\ pc' = [pc EXCEPT ![t].at = "unlinked"]
    /\ UNCHANGED <<vectors, ret, steps, files>>

\* MemoryStorage::remove, last statement: self.vector_index.remove(pathway)
RemoveIndexRemove(t) ==
    /\ pc # EmptyMap
    /\ pc[t].call = "remove" /\ pc[t].at = "unlinked"
    /\ vectors' = IndexRemove(vectors, pc[t].pathway)
    /\ pc' = [pc EXCEPT ![t].at = "done"]
    /\ UNCHANGED <<nodes, live, ret, steps, files>>

NextConc ==
    \/ \E node \in ConcNodeInputs \cup {[NodeNew(PApi, <<"y">>) EXCEPT !.embedding = VecY]} :
          Seed(node)
    \/ \E first \in {c \in ConcCalls : c.call = "put"}, second \in ConcCalls :
          Spawn(first, second)
    \/ \E t \in Tasks : PutIndexAdd(t)
    \/ \E t \in Tasks : PutNodesInsert(t)
    \/ \E t \in Tasks : RemoveNodes(t)
    \/ \E t \in Tasks : RemoveIndexRemove(t)

SpecConc == Init /\ [][NextConc]_vars

\* C26: once two concurrent calls on one pathway (two puts with different
\* embeddings, or a put and a remove) have both returned, the index holds a
\* vector for the pathway exactly when a node with a non-empty embedding is
\* stored there, and the vector is that node's embedding.
C26_StoreIndexAgree ==
    Joined =>
        LET key == to_string(PDocs)
        IN  /\ key \in DOMAIN vectors
                <=> (key \in DOMAIN nodes /\ nodes[key].embedding # <<>>)
            /\ key \in DOMAIN vectors => vectors[key] = nodes[key].embedding

(***************************************************************************)
(* SpecLock: two calls on one LocalStorage, run as tasks of an executor    *)
(* with ret.workers worker threads.  update_embedding and update_digest    *)
(* take the entry guard of the node map (DashMap::get_mut) and keep it     *)
(* while save_node is awaited; the write itself runs on the blocking pool  *)
(* and needs no worker.  A task is polled only by a free worker; a call    *)
(* that reaches for an entry whose guard is held does not yield: it keeps  *)
(* its worker until the guard is dropped.  Guards are told apart by key    *)
(* (keys that share a shard are not modelled as colliding); list walks     *)
(* every shard and waits for any guard.                                    *)
(***************************************************************************)
MaxWorkers == 2

Updates == {"update_embedding", "update_digest"}

LockNodeInputs ==
    {[NodeNew(PDocs, <<"x">>) EXCEPT !.embedding = VecX], NodeNew(PApi, <<"y">>)}

UpdateCalls ==
    {[call |-> "update_embedding", pathway |-> PDocs, embedding |-> VecXY, at |-> "start"],
     [call |-> "update_digest", pathway |-> PDocs, digest |-> DigestGenerated, at |-> "start"]}

OtherCalls ==
    {[call |-> "get", pathway |-> p, at |-> "start"] : p \in {PDocs, PApi}}
    \cup {[call |-> "put", pathway |-> n.pathway, node |-> n, at |-> "start"]
            : n \in LockNodeInputs}
    \cup {[call |-> "list", pathway |-> PDocs, at |-> "start"],
          [call |-> "search_vector", vector |-> VecX, at |-> "start"]}

\* a worker thread that is not stuck waiting for a guard
FreeWorker == Cardinality({u \in Tasks : pc[u].at = "blocked"}) < ret.workers

GuardHeld(key) ==
    \E u \in Tasks : /\ pc[u].call \in Updates
                     /\ pc[u].at \in {"writing", "written"}
                     /\ to_string(pc[u].pathway) = key

AnyGuardHeld ==
    \E u \in Tasks : pc[u].call \in Updates /\ pc[u].at \in {"writing", "written"}

LockSeed(node) ==
    /\ pc = EmptyMap
    /\ LocalPut(node)

LockSpawn(workers, first, second) ==
    /\ pc = EmptyMap
    /\ Running
    /\ pc' = <<first, second>>
    /\ ret' = [op |-> "spawn", calls |-> <<first.call, second.call>>, workers |-> workers]
    /\ UNCHANGED <<nodes, vectors, live, steps, files>>

\* update_embedding / update_digest up to the await of save_node: get_mut,
\* the assignment through the guard, the write handed to the blocking pool
UpdateAcquire(t) ==
    /\ pc # EmptyMap
    /\ pc[t].call \in Updates /\ pc[t].at = "start"
    /\ FreeWorker
    /\ LET key == to_string(pc[t].pathway)
       IN  IF key \notin DOMAIN nodes
           THEN /\ pc' = [pc EXCEPT ![t].at = "done"]
                /\ UNCHANGED nodes
           ELSE /\ nodes' = IF pc[t].call = "update_embedding"
                            THEN [nodes EXCEPT ![key].embedding = pc[t].embedding]
                            ELSE [nodes EXCEPT ![key].digest = pc[t].digest]
                /\ pc' = [pc EXCEPT ![t].at = "writing"]
    /\ UNCHANGED <<vectors, live, ret, steps, files>>

\* the blocking pool finishes fs::write and wakes the task
WriteCompletes(t) ==
    /\ pc # EmptyMap
    /\ pc[t].call \in Updates /\ pc[t].at = "writing"
    /\ files' = save_node(files, nodes[to_string(pc[t].pathway)])
    /\ pc' = [pc EXCEPT ![t].at = "written"]
    /\ UNCHANGED <<nodes, vectors, live, ret, steps>>

\* the woken task is polled again: the index add of update_embedding, the
\* guard dropped at the end of the if-let, Ok(())
UpdateResume(t) ==
    /\ pc # EmptyMap
    /\ pc[t].call \in Updates /\ pc[t].at = "written"
    /\ FreeWorker
    /\ vectors' = IF pc[t].call = "update_embedding"
                  THEN IndexAdd(vectors, pc[t].pathway, pc[t].embedding)
                  ELSE vectors
    /\ live' = IF pc[t].call = "update_embedding"
               THEN LiveUpdateEmbedding(live, pc[t].pathway, pc[t].embedding)
               ELSE LiveUpdateDigest(live, pc[t].pathway, pc[t].digest)
    /\ pc' = [pc EXCEPT ![t].at = "done"]
    /\ UNCHANGED <<nodes, ret, steps, files>>

\* LocalStorage::get polled: self.nodes.get(&key) waits on a held guard
GetPoll(t) ==
    /\ pc # EmptyMap
    /\ pc[t].call = "get" /\ pc[t].at = "start"
    /\ FreeWorker
    /\ IF GuardHeld(to_string(pc[t].pathway))
       THEN /\ pc' = [pc EXCEPT ![t].at = "blocked"]
            /\ UNCHANGED nodes
       ELSE /\ nodes' = local_get(nodes, files, pc[t].pathway).store
            /\ pc' = [pc EXCEPT ![t].at = "done"]
    /\ UNCHANGED <<vectors, live, ret, steps, files>>

\* LocalStorage::put, first statement: save_node
PutSave(t) ==
    /\ pc # EmptyMap
    /\ pc[t].call = "put" /\ pc[t].at = "start"
    /\ FreeWorker
    /\ files' = save_node(files, pc[t].node)
    /\ pc' = [pc EXCEPT ![t].at = "saved"]
    /\ UNCHANGED <<nodes, vectors, live, ret, steps>>

\* LocalStorage::put after the write: the index add, then self.nodes.insert,
\* which waits on a held guard
PutInsert(t) ==
    /\ pc # EmptyMap
    /\ pc[t].call = "put" /\ pc[t].at = "saved"
    /\ FreeWorker
    /\ vectors' = IF pc[t].node.embedding # <<>>
                  THEN IndexAdd(vectors, pc[t].pathway, pc[t].node.embedding)
                  ELSE vectors
    /\ IF GuardHeld(to_string(pc[t].pathway))
       THEN /\ pc' = [pc EXCEPT ![t].at = "blocked"]
            /\ UNCHANGED <<nodes, live>>
       ELSE /\ nodes' = MapInsert(nodes, to_string(pc[t].pathway), pc[t].node)
            /\ live' = LivePut(live, pc[t].node)
            /\ pc' = [pc EXCEPT ![t].at = "done"]
    /\ UNCHANGED <<ret, steps, files>>

\* LocalStorage::list polled: self.nodes.iter() locks each shard in turn
ListPoll(t) ==
    /\ pc # EmptyMap
    /\ pc[t].call = "list" /\ pc[t].at = "start"
    /\ FreeWorker
    /\ pc' = [pc EXCEPT ![t].at = IF AnyGuardHeld THEN "blocked" ELSE "done"]
    /\ UNCHANGED <<nodes, vectors, live, ret, steps, files>>

\* LocalStorage::search_vector polled: only the index is read
SearchPoll(t) ==
    /\ pc # EmptyMap
    /\ pc[t].call = "search_vector" /\ pc[t].at = "start"
    /\ FreeWorker
    /\ pc' = [pc EXCEPT ![t].at = "done"]
    /\ UNCHANGED <<nodes, vectors, live, ret, steps, files>>

\* a waiting call gets the entry once the guard is dropped, and finishes
GuardGranted(t) ==
    /\ pc # EmptyMap
    /\ pc[t].at = "blocked"
    /\ IF pc[t].call = "list" THEN ~AnyGuardHeld
       ELSE ~GuardHeld(to_string(pc[t].pathway))
    /\ nodes' = IF pc[t].call = "get" THEN local_get(nodes, files, pc[t].pathway).store
                ELSE IF pc[t].call = "put"
                     THEN MapInsert(nodes, to_string(pc[t].pathway), pc[t].node)
                     ELSE nodes
    /\ live' = IF pc[t].call = "put" THEN LivePut(live, pc[t].node) ELSE live
    /\ pc' = [pc EXCEPT ![t].at = "done"]
    /\ UNCHANGED <<vectors, ret, steps, files>>

TaskStep(t) ==
    \/ UpdateAcquire(t)
    \/ WriteCompletes(t)
    \/ UpdateResume(t)
    \/ GetPoll(t)
    \/ PutSave(t)
    \/ PutInsert(t)
    \/ ListPoll(t)
    \/ SearchPoll(t)
    \/ GuardGranted(t)

NextLock ==
    \/ \E node \in LockNodeInputs : LockSeed(node)
    \/ \E workers \in 1..MaxWorkers, first \in UpdateCalls, second \in OtherCalls :
          LockSpawn(workers, first, second)
    \/ \E t \in Tasks : UpdateAcquire(t)
    \/ \E t \in Tasks : WriteCompletes(t)
    \/ \E t \in Tasks : UpdateResume(t)
    \/ \E t \in Tasks : GetPoll(t)
    \/ \E t \in Tasks : PutSave(t)
    \/ \E t \in Tasks : PutInsert(t)
    \/ \E t \in Tasks : ListPoll(t)
    \/ \E t \in Tasks : SearchPoll(t)
    \/ \E t \in Tasks : GuardGranted(t)

SpecLock == InitLocal /\ [][NextLock]_vars

\* the executor polls a ready task whenever a worker is free, the blocking
\* pool finishes every write, and a waiting thread takes a guard that stays
\* free: each task's next step is taken if it stays enabled
SpecLockFair == SpecLock /\ \A t \in Tasks : WF_vars(TaskStep(t))

\* C28: under fair scheduling every started call eventually returns, on an
\* executor of one worker thread too: an update suspended in its write does
\* not keep a concurrent get, put, list or search from completing.
C28_EveryCallReturns == (pc # EmptyMap) ~> Joined


=============================================================================
